---- MODULE Spec2Model ----
(***************************************************************************)
(* A model of the regular-expression engine of src/regex.cpp: the parser   *)
(* (buildAST), the printer (operator<<), EqualAST, the AST optimizer       *)
(* (optimizeAST), the lowering to an NFA (ASTtoNFA), the NFA optimizer     *)
(* (NFA::optimize) and the two executors (NFA::simulate, NFA::powerset),   *)
(* driven as main's test loop drives them (src/regex.cpp:1558-1601).       *)
(*                                                                         *)
(* Patterns and inputs are TLA+ strings; a character is a string of        *)
(* length one.  Pointers into the AST (the parser's activenode stack) are  *)
(* paths from the root: 0 steps to the child of a single-child node, i >= 1*)
(* to childs[i-1] of a multi-child node.  A node's parent pointer is the   *)
(* node one step up the path: every place of buildAST that moves a node    *)
(* also sets its parent to the owner of the slot it is moved into.         *)
(***************************************************************************)
EXTENDS Integers, Sequences, FiniteSets, TLC

(***************************************************************************)
(* Characters                                                              *)
(***************************************************************************)
\* The printable ASCII characters in code order: ' ' (32) to '_' (95), and
\* 'a' (97) to '~' (126).
AsciiLow == " !\"#$%&'()*+,-./0123456789:;<=>?@ABCDEFGHIJKLMNOPQRSTUVWXYZ[\\]^_"
AsciiHigh == "abcdefghijklmnopqrstuvwxyz{|}~"

CharAt(s, i) == SubSeq(s, i, i)

\* The byte that ends a std::string (it is no character of a pattern).
NUL == "NUL"

Chars == {CharAt(AsciiLow, i) : i \in 1..Len(AsciiLow)}
           \cup {CharAt(AsciiHigh, i) : i \in 1..Len(AsciiHigh)}

\* The value of a char (the order the code's <, <=, min, max and sort use).
OrdTable == [c \in Chars \cup {NUL} |->
               IF c = NUL THEN 0
               ELSE IF \E i \in 1..Len(AsciiLow) : CharAt(AsciiLow, i) = c
                    THEN 31 + (CHOOSE i \in 1..Len(AsciiLow) : CharAt(AsciiLow, i) = c)
                    ELSE 96 + (CHOOSE i \in 1..Len(AsciiHigh) : CharAt(AsciiHigh, i) = c)]

Ord(c) == OrdTable[c]

\* operator<<'s table of the characters it prints behind a backslash.
toescape == "!\"#$%&'()*+,-./:;<=>?@[\\]^{|}"

\* The array toescape[] holds the literal's characters and then the byte
\* that ends the literal: std::begin .. std::end covers them all.
toescapeAt(i) == IF i < Len(toescape) THEN CharAt(toescape, i + 1) ELSE NUL
toescapeSize == Len(toescape) + 1

\* std::lower_bound over toescape[first .. first+len), by halving.
RECURSIVE lower_bound(_, _, _)
lower_bound(first, len, ch) ==
  IF len <= 0 THEN first
  ELSE LET half == len \div 2
           middle == first + half
       IN IF Ord(toescapeAt(middle)) < Ord(ch)
          THEN lower_bound(middle + 1, len - half - 1, ch)
          ELSE lower_bound(first, half, ch)

\* std::binary_search(std::begin(toescape), std::end(toescape), ch)
MustEscape(ch) ==
  LET i == lower_bound(0, toescapeSize, ch)
  IN i # toescapeSize /\ ~(Ord(ch) < Ord(toescapeAt(i)))

IsDigit(c) == Ord(c) >= Ord("0") /\ Ord(c) <= Ord("9")

(***************************************************************************)
(* AST nodes                                                               *)
(***************************************************************************)
EpsilonMatcher == [type |-> "Epsilon"]
UniversalMatcher == [type |-> "Universal"]
CharacterMatcher(c) == [type |-> "Character", cmatch |-> c]
CharacterClassMatcher == [type |-> "CharacterClass", invert |-> FALSE, intervals |-> <<>>]

SingleTypes == {"Bracket", "KleeneStar", "OneOrMore", "OneOrNone", "Multiply"}
MultiTypes == {"Concatenation", "Disjunction"}

\* SingleChildNode, with the fields of all its subclasses: greedy (every
\* one), capture (BracketNode), min, max, unbounded (MultiplyNode).
SingleChildNode(t, child) ==
    [type |-> t, child |-> child, greedy |-> TRUE, capture |-> FALSE,
     min |-> 0, max |-> 0, unbounded |-> FALSE]

KleeneStarNode(child) == SingleChildNode("KleeneStar", child)
OneOrMoreNode(child) == SingleChildNode("OneOrMore", child)
OneOrNoneNode(child) == SingleChildNode("OneOrNone", child)
MultiplyNode(child) == SingleChildNode("Multiply", child)
BracketNode(child, capture) == [SingleChildNode("Bracket", child) EXCEPT !.capture = capture]

MultiChildNode(t, childs) == [type |-> t, childs |-> childs]
ConcatenationNode(childs) == MultiChildNode("Concatenation", childs)
DisjunctionNode(childs) == MultiChildNode("Disjunction", childs)

isinstance(n, t) == n.type = t
IsSingle(n) == n.type \in SingleTypes
IsMulti(n) == n.type \in MultiTypes

exact(m) == ~m.unbounded /\ m.min = m.max

priority(n) ==
    CASE n.type \in {"Bracket", "Epsilon", "Character", "Universal", "CharacterClass"} -> 0
      [] n.type \in {"KleeneStar", "OneOrMore", "OneOrNone", "Multiply"} -> 1
      [] n.type = "Concatenation" -> 2
      [] n.type = "Disjunction" -> 3

RECURSIVE accept_epsilon(_)
\* accept_epsilon with OneOrMoreNode answering as KleeneStarNode does.
accept_epsilon_OneOrMoreTrue(n) ==
    CASE n.type = "Bracket" -> accept_epsilon(n.child)
      [] n.type = "KleeneStar" -> TRUE
      [] n.type = "Concatenation" -> \A i \in 1..Len(n.childs) : accept_epsilon(n.childs[i])
      [] n.type = "Disjunction" -> \E i \in 1..Len(n.childs) : accept_epsilon(n.childs[i])
      [] n.type = "Epsilon" -> TRUE
      [] n.type = "Character" -> FALSE
      [] n.type = "Universal" -> FALSE
      [] n.type = "OneOrMore" -> TRUE
      [] n.type = "OneOrNone" -> TRUE
      [] n.type = "Multiply" -> n.min = 0 \/ accept_epsilon(n.child)
      [] n.type = "CharacterClass" -> FALSE

accept_epsilon(n) ==
    CASE n.type = "Bracket" -> accept_epsilon(n.child)
      [] n.type = "KleeneStar" -> TRUE
      [] n.type = "Concatenation" -> \A i \in 1..Len(n.childs) : accept_epsilon(n.childs[i])
      [] n.type = "Disjunction" -> \E i \in 1..Len(n.childs) : accept_epsilon(n.childs[i])
      [] n.type = "Epsilon" -> TRUE
      [] n.type = "Character" -> FALSE
      [] n.type = "Universal" -> FALSE
      [] n.type = "OneOrMore" -> accept_epsilon(n.child)
      [] n.type = "OneOrNone" -> TRUE
      [] n.type = "Multiply" -> n.min = 0 \/ accept_epsilon(n.child)
      [] n.type = "CharacterClass" -> FALSE

(***************************************************************************)
(* Slots of the tree, addressed by path                                    *)
(***************************************************************************)
RECURSIVE NodeAt(_, _)
NodeAt(root, path) ==
    IF path = <<>> THEN root
    ELSE IF Head(path) = 0 THEN NodeAt(root.child, Tail(path))
    ELSE NodeAt(root.childs[Head(path)], Tail(path))

RECURSIVE SetNodeAt(_, _, _)
SetNodeAt(root, path, n) ==
    IF path = <<>> THEN n
    ELSE IF Head(path) = 0
         THEN [root EXCEPT !.child = SetNodeAt(root.child, Tail(path), n)]
    ELSE [root EXCEPT !.childs[Head(path)] = SetNodeAt(root.childs[Head(path)], Tail(path), n)]

Front(s) == SubSeq(s, 1, Len(s) - 1)
Last(s) == s[Len(s)]

\* (*activenode.top())->parent: null for the root slot.
HasParent(path) == path # <<>>
ParentAt(root, path) == NodeAt(root, Front(path))

(***************************************************************************)
(* Character classes                                                       *)
(***************************************************************************)
\* std::pair<char, char>'s operator<
PairLess(p, q) == Ord(p[1]) < Ord(q[1]) \/ (p[1] = q[1] /\ Ord(p[2]) < Ord(q[2]))

RECURSIVE InsertSorted(_, _)
InsertSorted(sorted, p) ==
    IF sorted = <<>> THEN <<p>>
    ELSE IF PairLess(p, Head(sorted)) THEN <<p>> \o sorted
    ELSE <<Head(sorted)>> \o InsertSorted(Tail(sorted), p)

\* std::sort(intervals.begin(), intervals.end())
RECURSIVE SortIntervals(_)
SortIntervals(iv) ==
    IF iv = <<>> THEN <<>> ELSE InsertSorted(SortIntervals(Tail(iv)), Head(iv))

CharMin(a, b) == IF Ord(b) < Ord(a) THEN b ELSE a
CharMax(a, b) == IF Ord(a) < Ord(b) THEN b ELSE a

\* The merge loop of normalize merging the intervals that overlap only, not
\* the adjacent ones.
RECURSIVE MergeIntervals_OverlapOnly(_, _)
MergeIntervals_OverlapOnly(merged, rest) ==
    IF rest = <<>> THEN merged
    ELSE LET interval == Head(rest)
             lastm == merged[Len(merged)]
         IN IF Ord(interval[1]) <= Ord(lastm[2])
            THEN MergeIntervals_OverlapOnly(
                   [merged EXCEPT ![Len(merged)] = <<lastm[1], CharMax(interval[2], lastm[2])>>],
                   Tail(rest))
            ELSE MergeIntervals_OverlapOnly(Append(merged, interval), Tail(rest))

\* The merge loop of normalize: merged is intervals[0..mergedIndex].
RECURSIVE MergeIntervals(_, _)
MergeIntervals(merged, rest) ==
    IF rest = <<>> THEN merged
    ELSE LET interval == Head(rest)
             lastm == merged[Len(merged)]
         IN IF Ord(interval[1]) <= Ord(lastm[2]) + 1
            THEN MergeIntervals(
                   [merged EXCEPT ![Len(merged)] = <<lastm[1], CharMax(interval[2], lastm[2])>>],
                   Tail(rest))
            ELSE MergeIntervals(Append(merged, interval), Tail(rest))

\* CharacterClassMatcher::normalize
normalize(cls) ==
    IF cls.intervals = <<>> THEN cls
    ELSE LET ordered == [i \in 1..Len(cls.intervals) |->
                           <<CharMin(cls.intervals[i][1], cls.intervals[i][2]),
                             CharMax(cls.intervals[i][1], cls.intervals[i][2])>>]
             sorted == SortIntervals(ordered)
         IN [cls EXCEPT !.intervals = MergeIntervals(<<Head(sorted)>>, sorted)]

empty(cls) == Len(cls.intervals) = 0
singlec(cls) == ~cls.invert /\ Len(cls.intervals) = 1 /\ cls.intervals[1][1] = cls.intervals[1][2]
character(cls) == IF Len(cls.intervals) > 0 THEN cls.intervals[1][1] ELSE NUL

(***************************************************************************)
(* The parser: buildAST                                                    *)
(***************************************************************************)
\* The ways buildAST ends other than by returning an AST: the two exception
\* classes, a failed assert (abort), and a use of a null pointer.
NoThrow == "none"
SyntaxError == "syntax_error"
UnbalancedBrackets == "unbalanced_brackets"
AssertionFailed == "assertion_failed"
NullDereference == "null_dereference"

\* The locals of buildAST before its loop over the characters.
ParserInit ==
    [root |-> EpsilonMatcher,
     activenode |-> << <<>> >>,
     balanced_brackets |-> 0,
     escaped |-> FALSE,
     multiply_environment |-> FALSE,
     multiply_environment_max |-> FALSE,
     multiply_environment_max_str |-> FALSE,
     character_class_environment |-> FALSE,
     character_class_environment_interval |-> FALSE,
     lazymodifier |-> FALSE,
     objbuff |-> CharacterClassMatcher,
     thrown |-> NoThrow]

Throw(P, what) == [P EXCEPT !.thrown = what]

Top(P) == P.activenode[Len(P.activenode)]
TopNode(P) == NodeAt(P.root, Top(P))
SetTop(P, n) == [P EXCEPT !.root = SetNodeAt(P.root, Top(P), n)]
Pop(P) == [P EXCEPT !.activenode = Front(P.activenode)]
Push(P, path) == [P EXCEPT !.activenode = Append(P.activenode, path)]

\* Lines 609-628: a character inside [...] that is not the closing bracket.
ClassChar(P, c) ==
    IF c = "^" /\ ~P.escaped
    THEN [P EXCEPT !.objbuff.invert = TRUE, !.escaped = FALSE]
    ELSE IF c = "-" /\ ~P.escaped
    THEN IF Len(P.objbuff.intervals) > 0
         THEN [P EXCEPT !.character_class_environment_interval = TRUE, !.escaped = FALSE]
         ELSE Throw(P, SyntaxError)
    ELSE IF P.character_class_environment_interval
    THEN LET last_interval == Len(P.objbuff.intervals)
             e == P.objbuff.intervals[last_interval][1]
         IN [P EXCEPT !.objbuff.intervals[last_interval] = <<e, c>>,
                      !.character_class_environment_interval = FALSE,
                      !.escaped = FALSE]
    ELSE [P EXCEPT !.objbuff.intervals = Append(@, <<c, c>>), !.escaped = FALSE]

\* Lines 649-669: a character inside {...} that is not the closing brace.
MultiplyChar(P, c) ==
    IF c = ","
    THEN IF P.multiply_environment_max
         THEN Throw(P, SyntaxError)
         ELSE [P EXCEPT !.multiply_environment_max = TRUE]
    ELSE IF IsDigit(c)
    THEN LET currentnode == TopNode(P)
             digit == Ord(c) - Ord("0")
         IN IF ~isinstance(currentnode, "Multiply") THEN Throw(P, AssertionFailed)
            ELSE IF P.multiply_environment_max
            THEN [SetTop(P, [currentnode EXCEPT !.max = @ * 10 + digit])
                    EXCEPT !.multiply_environment_max_str = TRUE]
            ELSE SetTop(P, [currentnode EXCEPT !.min = @ * 10 + digit])
    ELSE IF c # " " THEN Throw(P, SyntaxError)
    ELSE P

\* Lines 673-682: an unescaped { wraps the active node in a MultiplyNode.
MultiplyOpen(P) ==
    [SetTop(P, MultiplyNode(TopNode(P)))
       EXCEPT !.multiply_environment = TRUE,
              !.multiply_environment_max = FALSE,
              !.multiply_environment_max_str = FALSE,
              !.lazymodifier = FALSE]

\* MultiplyClose that leaves max alone when no comma was read.
MultiplyClose_NoMirror(P) ==
    IF ~P.multiply_environment THEN Throw(P, SyntaxError)
    ELSE IF ~isinstance(TopNode(P), "Multiply") THEN Throw(P, AssertionFailed)
    ELSE IF P.multiply_environment_max /\ P.multiply_environment_max_str
              /\ TopNode(P).max < TopNode(P).min
    THEN Throw(P, SyntaxError)
    ELSE [SetTop(P, [TopNode(P) EXCEPT
                        !.unbounded = P.multiply_environment_max
                                        /\ ~P.multiply_environment_max_str])
            EXCEPT !.multiply_environment_max = FALSE,
                   !.multiply_environment = FALSE,
                   !.lazymodifier = TRUE]

\* Lines 683-699: an unescaped } closes the repetition.
MultiplyClose(P) ==
    IF ~P.multiply_environment THEN Throw(P, SyntaxError)
    ELSE LET currentnode == TopNode(P) IN
         IF ~isinstance(currentnode, "Multiply") THEN Throw(P, AssertionFailed)
         ELSE IF ~P.multiply_environment_max
         THEN [SetTop(P, [currentnode EXCEPT !.max = currentnode.min])
                 EXCEPT !.multiply_environment_max = FALSE,
                        !.multiply_environment = FALSE,
                        !.lazymodifier = TRUE]
         ELSE IF P.multiply_environment_max_str
         THEN IF currentnode.max < currentnode.min
              THEN Throw(P, SyntaxError)
              ELSE [P EXCEPT !.multiply_environment_max = FALSE,
                             !.multiply_environment = FALSE,
                             !.lazymodifier = TRUE]
         ELSE [SetTop(P, [currentnode EXCEPT !.unbounded = TRUE])
                 EXCEPT !.multiply_environment_max = FALSE,
                        !.multiply_environment = FALSE,
                        !.lazymodifier = TRUE]

\* Lines 709-712: do { pop } while (top has a parent and is no BracketNode);
\* P is the stack after the pop.
RECURSIVE PopToBracket(_)
PopToBracket(P) ==
    IF HasParent(Top(P)) /\ ~isinstance(TopNode(P), "Bracket") THEN PopToBracket(Pop(P)) ELSE P

\* CloseBracket without the test of the closing character against the group.
CloseBracket_AnyKind(P, c) ==
    IF ~isinstance(TopNode(P), "Bracket") THEN Throw(P, NullDereference)
    ELSE IF ~TopNode(P).capture
    THEN [SetTop(P, TopNode(P).child) EXCEPT !.lazymodifier = FALSE]
    ELSE [P EXCEPT !.lazymodifier = FALSE]

\* Lines 713-723: the bracket found is checked against the closing character,
\* and a non-capturing one gives its slot to its child.
CloseBracket(P, c) ==
    LET bracket == TopNode(P)
    IN IF ~isinstance(bracket, "Bracket") THEN Throw(P, NullDereference)
       ELSE IF (bracket.capture /\ c = ")") \/ (~bracket.capture /\ c = ">")
       THEN Throw(P, UnbalancedBrackets)
       ELSE IF ~bracket.capture
       THEN [SetTop(P, bracket.child) EXCEPT !.lazymodifier = FALSE]
       ELSE [P EXCEPT !.lazymodifier = FALSE]

\* Lines 704-712: an unescaped ) or >; P has balanced_brackets decremented.
CloseGroup(P, c) ==
    IF P.balanced_brackets < 0 THEN Throw(P, UnbalancedBrackets)
    ELSE IF Len(P.activenode) < 2 THEN Throw(P, AssertionFailed)
    ELSE CloseBracket(PopToBracket(Pop(P)), c)

\* Lines 724-741: *, + and ? wrap the active node.
Quantify(P, t) ==
    [SetTop(P, SingleChildNode(t, TopNode(P))) EXCEPT !.lazymodifier = TRUE]

\* Lines 742-752: the ? that follows a quantifier makes it lazy.
LazyModifier(P) ==
    IF P.escaped THEN Throw(P, AssertionFailed)
    ELSE LET n == TopNode(P) IN
         IF n.type \in {"KleeneStar", "OneOrMore", "OneOrNone", "Multiply"}
         THEN [SetTop(P, [n EXCEPT !.greedy = FALSE]) EXCEPT !.lazymodifier = FALSE]
         ELSE [P EXCEPT !.lazymodifier = FALSE]

\* Lines 756-760: climb to a Disjunction, to the child slot of a Bracket, or
\* to the root.
RECURSIVE ClimbToDisjunction(_)
ClimbToDisjunction(P) ==
    IF /\ HasParent(Top(P))
       /\ ~isinstance(TopNode(P), "Disjunction")
       /\ ~isinstance(ParentAt(P.root, Top(P)), "Bracket")
    THEN ClimbToDisjunction(Pop(P))
    ELSE P

\* Lines 762-773: P is the stack after the climb; a new Disjunction wraps the
\* active node, or the Disjunction found gets one more child.
AddAlternative(P, currmatcher) ==
    LET top == TopNode(P)
    IN IF ~isinstance(top, "Disjunction")
       THEN [Push(SetTop(P, DisjunctionNode(<<top, currmatcher>>)), Append(Top(P), 2))
               EXCEPT !.lazymodifier = FALSE]
       ELSE [Push(SetTop(P, [top EXCEPT !.childs = Append(@, currmatcher)]),
                  Append(Top(P), Len(top.childs) + 1))
               EXCEPT !.lazymodifier = FALSE]

\* Lines 753-773: an unescaped |.
Alternation(P) == AddAlternative(ClimbToDisjunction(P), EpsilonMatcher)

\* Lines 798-802: if the parent is a Concatenation, move up to it.
ClimbToConcatenation(P) ==
    IF HasParent(Top(P)) /\ isinstance(ParentAt(P.root, Top(P)), "Concatenation")
    THEN Pop(P) ELSE P

\* Lines 803-817: currmatcher takes the place of an Epsilon, becomes the last
\* child of a Concatenation, or a new Concatenation wraps the active node.
Attach(P, currmatcher) ==
    LET top == TopNode(P)
    IN IF isinstance(top, "Epsilon")
       THEN SetTop(P, currmatcher)
       ELSE IF isinstance(top, "Concatenation")
       THEN Push(SetTop(P, [top EXCEPT !.childs = Append(@, currmatcher)]),
                 Append(Top(P), Len(top.childs) + 1))
       ELSE Push(SetTop(P, ConcatenationNode(<<top, currmatcher>>)), Append(Top(P), 2))

\* Lines 819-823: a BracketNode just added makes its child the active node.
EnterBracket(P) ==
    [(IF isinstance(TopNode(P), "Bracket") THEN Push(P, Append(Top(P), 0)) ELSE P)
       EXCEPT !.lazymodifier = FALSE]

\* Lines 798-823: put currmatcher after the active node.
Concatenate(P, currmatcher) == EnterBracket(Attach(ClimbToConcatenation(P), currmatcher))

\* Lines 776-797: the node a character outside every environment stands for
\* (the lambda currmatcher); objbuffptr is the class read, normalized.
currmatcher(P, c, objbuffptr) ==
    IF ~P.escaped /\ (c = "(" \/ c = "<") THEN BracketNode(EpsilonMatcher, c = "<")
    ELSE IF c = "]" /\ ~P.escaped
    THEN (IF singlec(objbuffptr) THEN CharacterMatcher(character(objbuffptr)) ELSE objbuffptr)
    ELSE IF c = "." /\ ~P.escaped THEN UniversalMatcher
    ELSE CharacterMatcher(c)

\* Lines 774-797: what the lambda currmatcher does to the parser's locals.
ConcatenateChar(P, c, objbuffptr) ==
    IF ~P.escaped /\ (c = "(" \/ c = "<")
    THEN Concatenate([P EXCEPT !.balanced_brackets = @ + 1], currmatcher(P, c, objbuffptr))
    ELSE IF c = "]" /\ ~P.escaped
    THEN IF empty(objbuffptr) THEN Throw(P, SyntaxError)
         ELSE Concatenate([P EXCEPT !.objbuff = objbuffptr], currmatcher(P, c, objbuffptr))
    ELSE Concatenate(P, currmatcher(P, c, objbuffptr))

\* Lines 703-826: a character outside [...] and {...}.
NormalChar(P, c) ==
    IF P.character_class_environment \/ P.multiply_environment THEN Throw(P, AssertionFailed)
    ELSE [(IF ~P.escaped /\ (c = ")" \/ c = ">")
           THEN CloseGroup([P EXCEPT !.balanced_brackets = @ - 1], c)
           ELSE IF (c = "*" \/ c = "+") /\ ~P.escaped
           THEN Quantify(P, IF c = "*" THEN "KleeneStar" ELSE "OneOrMore")
           ELSE IF c = "?" /\ ~P.escaped /\ ~P.lazymodifier THEN Quantify(P, "OneOrNone")
           ELSE IF c = "?" /\ P.lazymodifier THEN LazyModifier(P)
           ELSE IF c = "|" /\ ~P.escaped THEN Alternation(P)
           ELSE ConcatenateChar(P, c, normalize(P.objbuff)))
            EXCEPT !.escaped = FALSE]

\* Lines 645-700: the repetition environment, its opening and its closing.
MultiplyEnvironment(P, c) ==
    IF P.multiply_environment /\ (P.character_class_environment \/ P.lazymodifier)
    THEN Throw(P, AssertionFailed)
    ELSE IF P.multiply_environment /\ P.escaped THEN Throw(P, SyntaxError)
    ELSE IF P.multiply_environment /\ c # "}" THEN MultiplyChar(P, c)
    ELSE IF c = "{" /\ ~P.escaped THEN MultiplyOpen(P)
    ELSE IF c = "}" /\ ~P.escaped THEN MultiplyClose(P)
    ELSE NormalChar(P, c)

\* Lines 598-827: the body of the loop over the characters of the pattern.
ParseChar(P, c) ==
    IF c = "\\" /\ ~P.escaped
    THEN [P EXCEPT !.lazymodifier = FALSE, !.escaped = TRUE]
    ELSE IF P.character_class_environment /\ (P.multiply_environment \/ P.lazymodifier)
    THEN Throw(P, AssertionFailed)
    ELSE IF P.character_class_environment /\ c = "[" /\ ~P.escaped
    THEN Throw(P, SyntaxError)
    ELSE IF P.character_class_environment /\ ~(c = "]" /\ ~P.escaped)
    THEN ClassChar(P, c)
    ELSE IF c = "[" /\ ~P.escaped
    THEN [P EXCEPT !.character_class_environment = TRUE,
                   !.character_class_environment_interval = FALSE,
                   !.objbuff = CharacterClassMatcher,
                   !.lazymodifier = FALSE]
    ELSE IF c = "]" /\ ~P.escaped
              /\ (~P.character_class_environment \/ P.character_class_environment_interval)
    THEN Throw(P, SyntaxError)
    ELSE MultiplyEnvironment(
             IF c = "]" /\ ~P.escaped
             THEN [P EXCEPT !.character_class_environment = FALSE] ELSE P, c)

RECURSIVE ParseLoop(_, _, _)
ParseLoop(P, regex, i) ==
    IF i > Len(regex) \/ P.thrown # NoThrow THEN P
    ELSE ParseLoop(ParseChar(P, CharAt(regex, i)), regex, i + 1)

(***************************************************************************)
(* The AST optimizer: optimizeAST                                          *)
(***************************************************************************)
RECURSIVE FlattenChilds(_, _)
FlattenChilds(childs, t) ==
    IF childs = <<>> THEN <<>>
    ELSE (IF isinstance(Head(childs), t) THEN Head(childs).childs ELSE <<Head(childs)>>)
         \o FlattenChilds(Tail(childs), t)

\* _merge_node_down<T>: each child of type T of a node of type T is replaced,
\* in place, by its own children.
merge_node_down(root, t) ==
    IF isinstance(root, t) THEN [root EXCEPT !.childs = FlattenChilds(@, t)] ELSE root

\* _merge_multiply turning {1,} into a KleeneStarNode, as it does {0,}.
merge_multiply_AlwaysStar(root) ==
    IF ~isinstance(root, "Multiply") THEN root
    ELSE LET mult == IF exact(root) /\ isinstance(root.child, "Multiply") /\ exact(root.child)
                     THEN [root EXCEPT !.min = root.min * root.child.min,
                                       !.max = root.min * root.child.min,
                                       !.child = root.child.child]
                     ELSE root
         IN IF mult.unbounded /\ (mult.min = 0 \/ mult.min = 1)
            THEN [KleeneStarNode(mult.child) EXCEPT !.greedy = mult.greedy]
            ELSE IF exact(mult) /\ mult.min = 0 THEN EpsilonMatcher
            ELSE mult

\* _merge_multiply
merge_multiply(root) ==
    IF ~isinstance(root, "Multiply") THEN root
    ELSE LET mult == IF exact(root) /\ isinstance(root.child, "Multiply") /\ exact(root.child)
                     THEN [root EXCEPT !.min = root.min * root.child.min,
                                       !.max = root.min * root.child.min,
                                       !.child = root.child.child]
                     ELSE root
         IN IF mult.unbounded /\ (mult.min = 0 \/ mult.min = 1)
            THEN IF mult.min = 0
                 THEN [KleeneStarNode(mult.child) EXCEPT !.greedy = mult.greedy]
                 ELSE [OneOrMoreNode(mult.child) EXCEPT !.greedy = mult.greedy]
            ELSE IF exact(mult) /\ mult.min = 0 THEN EpsilonMatcher
            ELSE mult

\* The order in which _merge_oneor_h instantiates _merge_oneor_hh<T1, T2>.
OneOrTypes == <<"KleeneStar", "OneOrMore", "OneOrNone">>
OneOrPairs == [k \in 1..9 |-> <<OneOrTypes[((k - 1) \div 3) + 1], OneOrTypes[((k - 1) % 3) + 1]>>]

\* _merge_oneor_hh that gives the star left by a OneOrNone or a OneOrMore
\* around a KleeneStar the greedy flag of the outer node.
merge_oneor_rewrite_OuterGreedy(element1, T1, T2) ==
    LET element2 == element1.child IN
    IF T1 = T2
    THEN <<TRUE, [element1 EXCEPT !.greedy = IF T1 = "OneOrMore"
                                             THEN element1.greedy \/ element2.greedy
                                             ELSE element1.greedy /\ element2.greedy,
                                  !.child = element2.child]>>
    ELSE IF T1 = "KleeneStar"
    THEN <<TRUE, [element1 EXCEPT !.greedy = IF T2 # "OneOrMore"
                                             THEN element1.greedy /\ element2.greedy
                                             ELSE element1.greedy,
                                  !.child = element2.child]>>
    ELSE IF T2 = "KleeneStar"
    THEN <<TRUE, [element2 EXCEPT !.greedy = element1.greedy]>>
    ELSE LET C1 == T1 = "OneOrNone" /\ T2 = "OneOrMore"
             C2 == T1 = "OneOrMore" /\ T2 = "OneOrNone"
         IN IF (C1 /\ (~element1.greedy \/ element2.greedy))
               \/ (C2 /\ (element1.greedy \/ ~element2.greedy))
            THEN <<TRUE, [KleeneStarNode(element2.child)
                            EXCEPT !.greedy = element1.greedy /\ element2.greedy]>>
            ELSE <<FALSE, element1>>

\* The rewrite of _merge_oneor_hh<T1, T2> on a root of type T1 whose child
\* has type T2: <<merge performed, new root>>.
merge_oneor_rewrite(element1, T1, T2) ==
    LET element2 == element1.child IN
    IF T1 = T2
    THEN <<TRUE, [element1 EXCEPT !.greedy = IF T1 = "OneOrMore"
                                             THEN element1.greedy \/ element2.greedy
                                             ELSE element1.greedy /\ element2.greedy,
                                  !.child = element2.child]>>
    ELSE IF T1 = "KleeneStar"
    THEN <<TRUE, [element1 EXCEPT !.greedy = IF T2 # "OneOrMore"
                                             THEN element1.greedy /\ element2.greedy
                                             ELSE element1.greedy,
                                  !.child = element2.child]>>
    ELSE IF T2 = "KleeneStar"
    THEN <<TRUE, [element2 EXCEPT !.greedy = IF T1 # "OneOrMore"
                                             THEN element1.greedy /\ element2.greedy
                                             ELSE element2.greedy]>>
    ELSE LET C1 == T1 = "OneOrNone" /\ T2 = "OneOrMore"
             C2 == T1 = "OneOrMore" /\ T2 = "OneOrNone"
         IN IF (C1 /\ (~element1.greedy \/ element2.greedy))
               \/ (C2 /\ (element1.greedy \/ ~element2.greedy))
            THEN <<TRUE, [KleeneStarNode(element2.child)
                            EXCEPT !.greedy = element1.greedy /\ element2.greedy]>>
            ELSE <<FALSE, element1>>

\* _merge_oneor_h that goes on with the next pair after a merge, without
\* trying all nine pairs again on the result.
RECURSIVE merge_oneor_h_NoRetry(_, _)
merge_oneor_h_NoRetry(root, k) ==
    IF k > 9 THEN root
    ELSE LET T1 == OneOrPairs[k][1]
             T2 == OneOrPairs[k][2]
         IN IF isinstance(root, T1) /\ isinstance(root.child, T2)
            THEN merge_oneor_h_NoRetry(merge_oneor_rewrite(root, T1, T2)[2], k + 1)
            ELSE merge_oneor_h_NoRetry(root, k + 1)

\* _merge_oneor_h calls _merge_oneor_hh for the pairs k..9 in order; a call
\* that merges runs all nine again on its result before the next pair.
RECURSIVE merge_oneor_h(_, _)
merge_oneor_h(root, k) ==
    IF k > 9 THEN root
    ELSE LET T1 == OneOrPairs[k][1]
             T2 == OneOrPairs[k][2]
         IN IF isinstance(root, T1) /\ isinstance(root.child, T2)
            THEN LET r == merge_oneor_rewrite(root, T1, T2) IN
                 IF r[1] THEN merge_oneor_h(merge_oneor_h(r[2], 1), k + 1)
                 ELSE merge_oneor_h(root, k + 1)
            ELSE merge_oneor_h(root, k + 1)

RECURSIVE optimizeAST(_)
optimizeAST(root) ==
    LET r1 == IF IsSingle(root) THEN [root EXCEPT !.child = optimizeAST(@)]
              ELSE IF IsMulti(root)
              THEN [root EXCEPT !.childs = [i \in 1..Len(root.childs) |-> optimizeAST(root.childs[i])]]
              ELSE root
        r2 == merge_node_down(r1, "Concatenation")
        r3 == merge_node_down(r2, "Disjunction")
        r4 == merge_multiply(r3)
    IN merge_oneor_h(r4, 1)

(***************************************************************************)
(* buildAST                                                                *)
(***************************************************************************)
\* Lines 574-587: the anchors and the text left between them.
AnchorBegin(regex) == Len(regex) > 0 /\ CharAt(regex, 1) = "^"
AnchorEnd(regex) == Len(regex) > 0 /\ CharAt(regex, Len(regex)) = "$"
\* Unanchored that leaves the $ of the end anchor in the text.
Unanchored_KeepEnd(regex) ==
    IF AnchorBegin(regex) THEN SubSeq(regex, 2, Len(regex)) ELSE regex

Unanchored(regex) ==
    LET r1 == IF AnchorBegin(regex) THEN SubSeq(regex, 2, Len(regex)) ELSE regex
    IN IF AnchorEnd(regex) THEN SubSeq(r1, 1, Len(r1) - 1) ELSE r1

\* Lines 829-834: what is left open at the end of the pattern is an error.
EndOfPattern(P) ==
    IF P.thrown # NoThrow THEN P
    ELSE IF P.balanced_brackets # 0 THEN Throw(P, UnbalancedBrackets)
    ELSE IF P.character_class_environment THEN Throw(P, SyntaxError)
    ELSE IF P.multiply_environment THEN Throw(P, SyntaxError)
    ELSE P

\* Lines 836-838: the AST returned. thrown names the exception (or the abort)
\* that ended the call; root and the anchors are the AST returned when
\* nothing was thrown.
ReturnAST(P, regex, optimize) ==
    [root |-> IF P.thrown # NoThrow THEN EpsilonMatcher
              ELSE IF optimize THEN optimizeAST(P.root) ELSE P.root,
     anchorBegin |-> AnchorBegin(regex),
     anchorEnd |-> AnchorEnd(regex),
     thrown |-> P.thrown]

buildAST(regex, optimize) ==
    ReturnAST(EndOfPattern(ParseLoop(ParserInit, Unanchored(regex), 1)), regex, optimize)

(***************************************************************************)
(* The printer: operator<<(ostream&, AST)                                  *)
(***************************************************************************)
PrintChar(ch) == (IF MustEscape(ch) THEN "\\" ELSE "") \o ch

PrintInterval(interval) ==
    PrintChar(interval[1])
    \o (IF interval[1] # interval[2] THEN "-" \o PrintChar(interval[2]) ELSE "")

RECURSIVE PrintIntervals(_)
PrintIntervals(iv) ==
    IF iv = <<>> THEN "" ELSE PrintInterval(Head(iv)) \o PrintIntervals(Tail(iv))

Lazy(n) == IF n.greedy THEN "" ELSE "?"

RECURSIVE PrintNode(_)
RECURSIVE PrintConcat(_, _)
RECURSIVE PrintDisj(_, _)

\* A child between ( and ) when open holds.
Wrapped(child, open) ==
    (IF open THEN "(" ELSE "") \o PrintNode(child) \o (IF open THEN ")" ELSE "")

PrintConcat(concat, i) ==
    IF i > Len(concat.childs) THEN ""
    ELSE Wrapped(concat.childs[i], priority(concat.childs[i]) > priority(concat))
         \o PrintConcat(concat, i + 1)

PrintDisj(disj, i) ==
    IF i > Len(disj.childs) THEN ""
    ELSE LET child == disj.childs[i]
             open == priority(child) > priority(disj)
         IN (IF open THEN ")" ELSE "") \o PrintNode(child) \o (IF open THEN ")" ELSE "")
            \o (IF i # Len(disj.childs) THEN "|" ELSE "")
            \o PrintDisj(disj, i + 1)

PrintNode(root) ==
    CASE root.type = "Character" -> PrintChar(root.cmatch)
      [] root.type = "CharacterClass" ->
           "[" \o (IF root.invert THEN "^" ELSE "") \o PrintIntervals(root.intervals) \o "]"
      [] root.type = "Universal" -> "."
      [] root.type = "Epsilon" -> ""
      [] root.type = "Concatenation" -> PrintConcat(root, 1)
      [] root.type = "Disjunction" -> PrintDisj(root, 1)
      [] root.type = "KleeneStar" ->
           Wrapped(root.child, priority(root.child) > priority(root)) \o "*" \o Lazy(root)
      [] root.type = "OneOrMore" ->
           Wrapped(root.child, priority(root.child) > priority(root)) \o "+" \o Lazy(root)
      [] root.type = "OneOrNone" ->
           LET lazyc == IF root.child.type \in {"KleeneStar", "OneOrNone", "OneOrMore", "Multiply"}
                        THEN root.child.greedy ELSE FALSE
           IN Wrapped(root.child, lazyc \/ priority(root.child) > priority(root))
              \o "?" \o Lazy(root)
      [] root.type = "Multiply" ->
           Wrapped(root.child, priority(root.child) > priority(root))
           \o "{" \o ToString(root.min)
           \o (IF ~exact(root)
               THEN "," \o (IF ~root.unbounded THEN ToString(root.max) ELSE "")
               ELSE "")
           \o "}" \o Lazy(root)
      [] root.type = "Bracket" ->
           (IF root.capture THEN "<" ELSE "(") \o PrintNode(root.child)
           \o (IF root.capture THEN ">" ELSE ")")

\* operator<<(ostream&, const AST&)
PrintAST(ast) ==
    (IF ast.anchorBegin THEN "^" ELSE "") \o PrintNode(ast.root)
    \o (IF ast.anchorEnd THEN "$" ELSE "")

(***************************************************************************)
(* EqualAST                                                                *)
(***************************************************************************)
\* typeid(root1.get()) and typeid(root2.get()) are both the static type
\* ASTNode*, so the first test of EqualAST never returns false.
RECURSIVE EqualNode(_, _)
EqualNode(root1, root2) ==
    IF isinstance(root1, "Character") /\ isinstance(root2, "Character")
    THEN root1.cmatch = root2.cmatch
    ELSE IF isinstance(root1, "CharacterClass") /\ isinstance(root2, "CharacterClass")
    THEN root1.invert = root2.invert /\ root1.intervals = root2.intervals
    ELSE IF isinstance(root1, "Universal") /\ isinstance(root2, "Universal") THEN TRUE
    ELSE IF isinstance(root1, "Epsilon") /\ isinstance(root2, "Epsilon") THEN TRUE
    ELSE IF IsSingle(root1) /\ IsSingle(root2)
    THEN IF root1.type = root2.type /\ root1.type \in {"KleeneStar", "OneOrMore", "OneOrNone"}
         THEN root1.greedy = root2.greedy /\ EqualNode(root1.child, root2.child)
         ELSE IF isinstance(root1, "Multiply") /\ isinstance(root2, "Multiply")
         THEN ~(\/ root1.greedy # root2.greedy
                \/ root1.min # root2.min
                \/ root1.unbounded # root2.unbounded
                \/ (~root1.unbounded /\ root1.max # root2.max))
              /\ EqualNode(root1.child, root2.child)
         ELSE IF ~isinstance(root1, "Bracket") \/ ~isinstance(root2, "Bracket")
         THEN FALSE
         ELSE EqualNode(root1.child, root2.child)
    ELSE IF IsMulti(root1) /\ IsMulti(root2)
    THEN IF root1.type = root2.type
         THEN Len(root1.childs) = Len(root2.childs)
              /\ \A i \in 1..Len(root1.childs) : EqualNode(root1.childs[i], root2.childs[i])
         ELSE FALSE
    ELSE FALSE

EqualAST(ast1, ast2) ==
    ast1.anchorBegin = ast2.anchorBegin
    /\ ast1.anchorEnd = ast2.anchorEnd
    /\ EqualNode(ast1.root, ast2.root)

(***************************************************************************)
(* NFA                                                                     *)
(***************************************************************************)
\* States are numbered from 0 as in the code: state i is nfa.states[i + 1].
\* A matcher pointer is the position of the matcher in nfa.matchers.
\* A transition is <<matcher, to, info>>, a reverse one <<matcher, from, info>>.
NullInfo == [null |-> TRUE, begingroups |-> {}, endgroups |-> {}]
transition_info_t(bgroups, egroups) ==
    [null |-> FALSE, begingroups |-> bgroups, endgroups |-> egroups]

NFAState == [initialState |-> FALSE, finalState |-> FALSE,
             transitions |-> <<>>, rtransitions |-> {}]

\* thrown records an assertion of the code that failed on the way.
EmptyNFA == [states |-> <<>>, matchers |-> <<>>, nGroups |-> 1, thrown |-> NoThrow]

IsMatcher(n) == n.type \in {"Epsilon", "Character", "Universal", "CharacterClass"}

\* newState returns the old states.size(): NewStateId names that value.
NewStateId(nfa) == Len(nfa.states)
newState(nfa) == [nfa EXCEPT !.states = Append(@, NFAState)]

\* newGroup returns the old nGroups.
newGroup(nfa) == [nfa EXCEPT !.nGroups = @ + 1]

InfoOK(nfa, info) ==
    info.null \/
      (/\ \A begingroup \in info.begingroups : begingroup < nfa.nGroups
       /\ \A endgroup \in info.endgroups : endgroup < nfa.nGroups
       /\ (info.begingroups # {} \/ info.endgroups # {}))

\* NFA::check: TRUE when no assertion of it fails.
check(nfa) ==
    \A s \in 1..Len(nfa.states) :
      LET state == nfa.states[s] IN
      /\ \A k \in 1..Len(state.transitions) :
           LET transition == state.transitions[k] IN
           /\ transition[2] < Len(nfa.states)
           /\ transition[1] \in 1..Len(nfa.matchers)
           /\ <<transition[1], s - 1, transition[3]>>
                  \in nfa.states[transition[2] + 1].rtransitions
           /\ InfoOK(nfa, transition[3])
      /\ \A rtransition \in state.rtransitions :
           /\ rtransition[2] < Len(nfa.states)
           /\ rtransition[1] \in 1..Len(nfa.matchers)
           /\ LET estate_rt == nfa.states[rtransition[2] + 1].transitions
              IN Cardinality({k \in 1..Len(estate_rt) :
                     estate_rt[k] = <<rtransition[1], s - 1, rtransition[3]>>}) = 1
           /\ InfoOK(nfa, rtransition[3])

Checked(nfa) ==
    IF nfa.thrown # NoThrow \/ check(nfa) THEN nfa ELSE [nfa EXCEPT !.thrown = AssertionFailed]

\* (A failed assertion ends the program: nothing is added after it.)
addTransition(nfa, matcher, fromState, toState, opengroups, closegroups) ==
    IF nfa.thrown # NoThrow THEN nfa ELSE
    LET useinfo == opengroups # {} \/ closegroups # {}
        info == IF useinfo THEN transition_info_t(opengroups, closegroups) ELSE NullInfo
        tmatcher == Len(nfa.matchers) + 1
        n1 == [nfa EXCEPT !.matchers = Append(@, matcher),
                          !.states[fromState + 1].transitions =
                               Append(@, <<tmatcher, toState, info>>)]
        n2 == [n1 EXCEPT !.states[toState + 1].rtransitions =
                               @ \cup {<<tmatcher, fromState, info>>}]
    IN Checked(n2)

\* The two epsilon transitions that end a loop body: back into the loop
\* (after -> before) and out of it (after -> end, closing the groups);
\* greedy adds the way back first, lazy the way out first.
LoopExit(nfa, greedy, after, before, end, closegroups) ==
    IF greedy
    THEN addTransition(addTransition(nfa, EpsilonMatcher, after, before, {}, {}),
                       EpsilonMatcher, after, end, {}, closegroups)
    ELSE addTransition(addTransition(nfa, EpsilonMatcher, after, end, {}, closegroups),
                       EpsilonMatcher, after, before, {}, {})

RECURSIVE ASTtoNFA_node(_, _, _, _, _, _)
RECURSIVE ConcatLoop(_, _, _, _, _, _, _)
RECURSIVE DisjLoop(_, _, _, _, _, _, _)
RECURSIVE MultiplyMinLoop(_, _, _, _, _)
RECURSIVE MultiplyMaxLoop(_, _, _, _, _, _, _)
RECURSIVE MultiplyTail(_, _, _, _, _, _)

\* The loop over the children of a concatenation that hands the groups to
\* open to none of them.
RECURSIVE ConcatLoop_NoOpen(_, _, _, _, _, _, _)
ConcatLoop_NoOpen(nfa, newbegin, end, childs, i, opengroups, closegroups) ==
    IF nfa.thrown # NoThrow \/ i >= Len(childs) THEN nfa
    ELSE LET last == (i = Len(childs) - 1)
             newend == IF ~last THEN NewStateId(nfa) ELSE end
             n1 == IF ~last THEN newState(nfa) ELSE nfa
             newcgroups == IF last THEN closegroups ELSE {}
         IN ConcatLoop_NoOpen(ASTtoNFA_node(n1, newbegin, newend, childs[i + 1],
                                            {}, newcgroups),
                              newend, end, childs, i + 1, opengroups, closegroups)

\* for (i = 0; i < concat->childs.size(); i++)
ConcatLoop(nfa, newbegin, end, childs, i, opengroups, closegroups) ==
    IF nfa.thrown # NoThrow \/ i >= Len(childs) THEN nfa
    ELSE LET last == (i = Len(childs) - 1)
             newend == IF ~last THEN NewStateId(nfa) ELSE end
             n1 == IF ~last THEN newState(nfa) ELSE nfa
             newogroups == IF i = 0 THEN opengroups ELSE {}
             newcgroups == IF last THEN closegroups ELSE {}
         IN ConcatLoop(ASTtoNFA_node(n1, newbegin, newend, childs[i + 1],
                                     newogroups, newcgroups),
                       newend, end, childs, i + 1, opengroups, closegroups)

\* for (auto&child:disj->childs)
DisjLoop(nfa, begin, end, childs, i, opengroups, closegroups) ==
    IF nfa.thrown # NoThrow \/ i > Len(childs) THEN nfa
    ELSE DisjLoop(ASTtoNFA_node(nfa, begin, end, childs[i], opengroups, closegroups),
                  begin, end, childs, i + 1, opengroups, closegroups)

\* for (; i < multiply->min-1; i++): yields the nfa, newbegin and i.
MultiplyMinLoop(nfa, newbegin, multiply, i, opengroups) ==
    IF nfa.thrown = NoThrow /\ i < multiply.min - 1
    THEN LET newend == NewStateId(nfa)
             newogroups == IF i = 0 THEN opengroups ELSE {}
         IN MultiplyMinLoop(ASTtoNFA_node(newState(nfa), newbegin, newend,
                                          multiply.child, newogroups, {}),
                            newend, multiply, i + 1, opengroups)
    ELSE [nfa |-> nfa, newbegin |-> newbegin, i |-> i]

\* for (; i < multiply->max-1; i++): yields the nfa, newbegin and i.
MultiplyMaxLoop(nfa, newbegin, end, multiply, i, opengroups, closegroups) ==
    IF nfa.thrown = NoThrow /\ i < multiply.max - 1
    THEN LET newend == NewStateId(nfa)
             n0 == newState(nfa)
             newogroups == IF i = 0 THEN opengroups ELSE {}
             skip(n) == IF i >= multiply.min
                        THEN addTransition(n, EpsilonMatcher, newbegin, end,
                                           newogroups, closegroups)
                        ELSE n
             body(n) == ASTtoNFA_node(n, newbegin, newend, multiply.child, newogroups, {})
         IN MultiplyMaxLoop(IF multiply.greedy THEN skip(body(n0)) ELSE body(skip(n0)),
                            newend, end, multiply, i + 1, opengroups, closegroups)
    ELSE [nfa |-> nfa, newbegin |-> newbegin, i |-> i]

\* The star built on one state mid (a child that cannot match epsilon).
StarOnMid(nfa, begin, end, node, opengroups, closegroups) ==
    LET mid == NewStateId(nfa)
        n1 == addTransition(newState(nfa), EpsilonMatcher, begin, mid, opengroups, {})
    IN IF node.greedy
       THEN addTransition(ASTtoNFA_node(n1, mid, mid, node.child, {}, {}),
                          EpsilonMatcher, mid, end, {}, closegroups)
       ELSE ASTtoNFA_node(addTransition(n1, EpsilonMatcher, mid, end, {}, closegroups),
                          mid, mid, node.child, {}, {})

\* The plus built on two states before and after.
PlusOnBeforeAfter(nfa, begin, end, node, opengroups, closegroups) ==
    LET before == NewStateId(nfa)
        after == before + 1
        n1 == addTransition(newState(newState(nfa)), EpsilonMatcher, begin, before,
                            opengroups, {})
        n2 == ASTtoNFA_node(n1, before, after, node.child, {}, {})
    IN LoopExit(n2, node.greedy, after, before, end, closegroups)

\* MultiplyLast with the way around the last copy always tried first.
MultiplyLast_SkipFirst(b, end, root, opengroups, closegroups) ==
    ASTtoNFA_node(addTransition(b.nfa, EpsilonMatcher, b.newbegin, end,
                                IF b.i = 0 THEN opengroups ELSE {}, closegroups),
                  b.newbegin, end, root.child,
                  IF b.i = 0 THEN opengroups ELSE {}, closegroups)

\* Lines 1167-1173: the last copy of a bounded repetition and the way around
\* it; b is what the loop over the copies before it has left.
MultiplyLast(b, end, root, opengroups, closegroups) ==
    LET lastogroups == IF b.i = 0 THEN opengroups ELSE {}
        skip(n) == addTransition(n, EpsilonMatcher, b.newbegin, end,
                                 lastogroups, closegroups)
        body(n) == ASTtoNFA_node(n, b.newbegin, end, root.child,
                                 lastogroups, closegroups)
    IN IF root.greedy THEN skip(body(b.nfa)) ELSE body(skip(b.nfa))

\* Lines 1109-1174: what follows the first min-1 copies of a repetition; m is
\* what the loop over them has left.
MultiplyTail(m, begin, end, root, opengroups, closegroups) ==
    LET newogroups == IF m.i = 0 THEN opengroups ELSE {}
    IN IF exact(root) THEN
           IF root.min # 0
           THEN ASTtoNFA_node(m.nfa, m.newbegin, end, root.child, newogroups, closegroups)
           ELSE addTransition(m.nfa, EpsilonMatcher, begin, end, opengroups, closegroups)
       ELSE IF root.unbounded THEN
           IF root.min = 0 THEN
               StarOnMid(m.nfa, begin, end, root, opengroups, closegroups)
           ELSE IF root.min = 1 THEN
               PlusOnBeforeAfter(m.nfa, begin, end, root, opengroups, closegroups)
           ELSE
               LoopExit(ASTtoNFA_node(IF m.i # 0 THEN newState(m.nfa)
                                      ELSE [newState(m.nfa) EXCEPT !.thrown = AssertionFailed],
                                      m.newbegin, NewStateId(m.nfa), root.child, {}, {}),
                        root.greedy, NewStateId(m.nfa), m.newbegin, end, closegroups)
       ELSE
           MultiplyLast(MultiplyMaxLoop(m.nfa, m.newbegin, end, root, m.i,
                                        opengroups, closegroups),
                        end, root, opengroups, closegroups)

ASTtoNFA_node(nfa, begin, end, root, opengroups, closegroups) ==
    IF nfa.thrown # NoThrow THEN nfa
    ELSE IF IsMatcher(root) THEN
        addTransition(nfa, root, begin, end, opengroups, closegroups)
    ELSE IF isinstance(root, "Concatenation") THEN
        ConcatLoop(nfa, begin, end, root.childs, 0, opengroups, closegroups)
    ELSE IF isinstance(root, "Disjunction") THEN
        DisjLoop(nfa, begin, end, root.childs, 1, opengroups, closegroups)
    ELSE IF isinstance(root, "KleeneStar") THEN
        IF accept_epsilon(root.child) THEN
            LET before == NewStateId(nfa)
                after == before + 1
                n0 == newState(newState(nfa))
                toBefore(n) == addTransition(n, EpsilonMatcher, begin, before, opengroups, {})
                toEnd(n) == addTransition(n, EpsilonMatcher, begin, end, opengroups, closegroups)
                n1 == IF root.greedy THEN toEnd(toBefore(n0)) ELSE toBefore(toEnd(n0))
                n2 == ASTtoNFA_node(n1, before, after, root.child, {}, {})
            IN LoopExit(n2, root.greedy, after, before, end, closegroups)
        ELSE StarOnMid(nfa, begin, end, root, opengroups, closegroups)
    ELSE IF isinstance(root, "OneOrMore") THEN
        PlusOnBeforeAfter(nfa, begin, end, root, opengroups, closegroups)
    ELSE IF isinstance(root, "OneOrNone") THEN
        IF root.greedy
        THEN addTransition(ASTtoNFA_node(nfa, begin, end, root.child, opengroups, closegroups),
                           EpsilonMatcher, begin, end, opengroups, closegroups)
        ELSE ASTtoNFA_node(addTransition(nfa, EpsilonMatcher, begin, end, opengroups, closegroups),
                           begin, end, root.child, opengroups, closegroups)
    ELSE IF isinstance(root, "Multiply") THEN
        MultiplyTail(IF root.min # 0 THEN MultiplyMinLoop(nfa, begin, root, 0, opengroups)
                     ELSE [nfa |-> nfa, newbegin |-> begin, i |-> 0],
                     begin, end, root, opengroups, closegroups)
    ELSE IF isinstance(root, "Bracket") THEN
        IF root.capture
        THEN LET newGroupid == nfa.nGroups
             IN ASTtoNFA_node(newGroup(nfa), begin, end, root.child,
                              opengroups \cup {newGroupid}, closegroups \cup {newGroupid})
        ELSE ASTtoNFA_node(nfa, begin, end, root.child, opengroups, closegroups)
    ELSE nfa

(***************************************************************************)
(* NFA::optimize                                                           *)
(***************************************************************************)
\* remove_node that renumbers the forward transitions only.
remove_node_ForwardOnly(nfa, i, j) ==
    [nfa EXCEPT
       !.states = [k \in 1..(Len(nfa.states) - 1) |->
                     [(IF k <= i THEN nfa.states[k] ELSE nfa.states[k + 1]) EXCEPT
                        !.transitions = [x \in 1..Len(@) |->
                            <<@[x][1],
                              IF @[x][2] > i THEN @[x][2] - 1
                              ELSE IF @[x][2] = i THEN (IF j > i THEN j - 1 ELSE j)
                              ELSE @[x][2],
                              @[x][3]>>]]]]

\* The lambda remove_node(i, j): erases state i, renumbers the states after
\* it, and redirects what pointed to i to j.  Its assertions (nothing may
\* point to or from i when i = j) are recorded in thrown.
remove_node(nfa, i, j) ==
    LET unique == (i = j)
        newj == IF j > i THEN j - 1 ELSE j
        erased == [k \in 1..(Len(nfa.states) - 1) |->
                      IF k <= i THEN nfa.states[k] ELSE nfa.states[k + 1]]
        failed == unique /\ \E k \in 1..Len(erased) :
                      \/ \E x \in 1..Len(erased[k].transitions) :
                              erased[k].transitions[x][2] = i
                      \/ \E rtransition \in erased[k].rtransitions : rtransition[2] = i
        fixT(transition) ==
            <<transition[1],
              IF transition[2] > i THEN transition[2] - 1
              ELSE IF transition[2] = i THEN newj ELSE transition[2],
              transition[3]>>
        fixR(rtransition) ==
            <<rtransition[1],
              IF rtransition[2] > i THEN rtransition[2] - 1
              ELSE IF rtransition[2] < i THEN rtransition[2] ELSE newj,
              rtransition[3]>>
    IN [nfa EXCEPT
          !.states = [k \in 1..Len(erased) |->
                        [erased[k] EXCEPT
                           !.transitions = [x \in 1..Len(erased[k].transitions) |->
                                               fixT(erased[k].transitions[x])],
                           !.rtransitions = {fixR(rtransition) :
                                               rtransition \in erased[k].rtransitions}]],
          !.thrown = IF failed THEN AssertionFailed ELSE @]

\* std::find over a vector of transitions: the first position holding t, or 0.
FindTransition(trans, t) ==
    LET found == {k \in 1..Len(trans) : trans[k] = t}
    IN IF found = {} THEN 0 ELSE CHOOSE k \in found : \A x \in found : k <= x

\* SweepReached that puts the transitions of the merged state after those of
\* its predecessor, not at the place of the removed epsilon transition.
RECURSIVE SweepReached_MergedLast(_, _)
SweepReached_MergedLast(nfa, i) ==
    IF i < 0 \/ nfa.thrown # NoThrow THEN nfa
    ELSE LET state == nfa.states[i + 1] IN
      IF Cardinality(state.rtransitions) = 1 /\ ~state.initialState THEN
          LET first == CHOOSE rtransition \in state.rtransitions : TRUE
              j == first[2]
              trans == nfa.states[j + 1].transitions
              result == FindTransition(trans, <<first[1], i, first[3]>>)
              merged == SubSeq(trans, 1, result - 1)
                          \o SubSeq(trans, result + 1, Len(trans)) \o state.transitions
              n1 == [nfa EXCEPT !.states[j + 1].transitions = merged]
          IN IF isinstance(nfa.matchers[first[1]], "Epsilon") /\ first[3].null /\ result # 0
             THEN SweepReached_MergedLast(remove_node(n1, i, j), i - 1)
             ELSE SweepReached_MergedLast(nfa, i - 1)
      ELSE SweepReached_MergedLast(nfa, i - 1)

\* SweepReached that merges a state into its predecessor whatever the single
\* transition into it is.
RECURSIVE SweepReached_AnyTransition(_, _)
SweepReached_AnyTransition(nfa, i) ==
    IF i < 0 \/ nfa.thrown # NoThrow THEN nfa
    ELSE LET state == nfa.states[i + 1] IN
      IF Cardinality(state.rtransitions) = 0 /\ ~state.initialState THEN
          SweepReached_AnyTransition(remove_node(nfa, i, i), i - 1)
      ELSE IF Cardinality(state.rtransitions) = 1 /\ ~state.initialState THEN
          LET first == CHOOSE rtransition \in state.rtransitions : TRUE
              j == first[2]
              trans == nfa.states[j + 1].transitions
              result == FindTransition(trans, <<first[1], i, first[3]>>)
              merged == SubSeq(trans, 1, result - 1) \o state.transitions
                          \o SubSeq(trans, result + 1, Len(trans))
              n1 == [nfa EXCEPT !.states[j + 1].transitions = merged]
          IN IF result = 0 \/ j = i THEN SweepReached_AnyTransition(nfa, i - 1)
             ELSE SweepReached_AnyTransition(remove_node(n1, i, j), i - 1)
      ELSE SweepReached_AnyTransition(nfa, i - 1)

\* First sweep, for (i = states.size(); i-- > 0;): i is the value after i--.
RECURSIVE SweepReached(_, _)
SweepReached(nfa, i) ==
    IF i < 0 \/ nfa.thrown # NoThrow THEN nfa
    ELSE LET state == nfa.states[i + 1] IN
      IF Cardinality(state.rtransitions) = 0 /\ ~state.initialState THEN
          SweepReached(remove_node(nfa, i, i), i - 1)
      ELSE IF Cardinality(state.rtransitions) = 1 /\ ~state.initialState THEN
          LET first == CHOOSE rtransition \in state.rtransitions : TRUE
              matcher == first[1]
              info == first[3]
          IN IF isinstance(nfa.matchers[matcher], "Epsilon") /\ info.null THEN
                 LET j == first[2]
                     trans == nfa.states[j + 1].transitions
                     result == FindTransition(trans, <<matcher, i, info>>)
                 IN IF result = 0 THEN [nfa EXCEPT !.thrown = AssertionFailed]
                    ELSE LET merged == SubSeq(trans, 1, result - 1)
                                         \o state.transitions
                                         \o SubSeq(trans, result + 1, Len(trans))
                             n1 == [nfa EXCEPT !.states[j + 1].transitions = merged]
                         IN SweepReached(remove_node(n1, i, j), i - 1)
             ELSE SweepReached(nfa, i - 1)
      ELSE SweepReached(nfa, i - 1)

\* SweepLeaving with no test of the final flag.
RECURSIVE SweepLeaving_NoFinalTest(_, _)
SweepLeaving_NoFinalTest(nfa, i) ==
    IF i < 0 \/ nfa.thrown # NoThrow THEN nfa
    ELSE LET state == nfa.states[i + 1] IN
      IF Len(state.transitions) = 0 THEN
          SweepLeaving_NoFinalTest(remove_node(nfa, i, i), i - 1)
      ELSE SweepLeaving_NoFinalTest(nfa, i - 1)

\* Second sweep, same loop.
RECURSIVE SweepLeaving(_, _)
SweepLeaving(nfa, i) ==
    IF i < 0 \/ nfa.thrown # NoThrow THEN nfa
    ELSE LET state == nfa.states[i + 1] IN
      IF Len(state.transitions) = 0 /\ ~state.finalState THEN
          SweepLeaving(remove_node(nfa, i, i), i - 1)
      ELSE IF Len(state.transitions) = 1 /\ ~state.finalState THEN
          LET matcher == state.transitions[1][1]
              info == state.transitions[1][3]
          IN IF isinstance(nfa.matchers[matcher], "Epsilon") /\ info.null THEN
                 LET j == state.transitions[1][2]
                     key == <<matcher, i, info>>
                 IN IF key \notin nfa.states[j + 1].rtransitions
                    THEN [nfa EXCEPT !.thrown = AssertionFailed]
                    ELSE LET n1 == [nfa EXCEPT !.states[j + 1].rtransitions = @ \ {key}]
                             n2 == [n1 EXCEPT !.states[j + 1].rtransitions =
                                                  @ \cup n1.states[i + 1].rtransitions]
                         IN SweepLeaving(remove_node(n2, i, j), i - 1)
             ELSE SweepLeaving(nfa, i - 1)
      ELSE SweepLeaving(nfa, i - 1)

\* Lines 1266-1282: the second sweep starts from the last of the states the
\* first sweep has left.
SecondSweep(nfa) == SweepLeaving(nfa, Len(nfa.states) - 1)

optimize(nfa) == SecondSweep(SweepReached(nfa, Len(nfa.states) - 1))

\* Lines 1202-1203: the Universal self-loop of a state on a side where the
\* AST is not anchored.
SelfLoop(nfa, anchored, state) ==
    IF anchored THEN nfa ELSE addTransition(nfa, UniversalMatcher, state, state, {}, {})

\* Lines 1204-1207: optimize if asked to, check, return.
Finished(nfa, optimizeflag) ==
    IF nfa.thrown # NoThrow THEN nfa
    ELSE Checked(IF optimizeflag THEN optimize(nfa) ELSE nfa)

\* Lines 1198-1200: the initial and the final state.
TwoStates ==
    [newState(newState(EmptyNFA)) EXCEPT !.states[1].initialState = TRUE,
                                         !.states[2].finalState = TRUE]

\* ASTtoNFA adding the Universal self-loop of the final state whether or not
\* the AST is anchored at its end.
ASTtoNFA_EndLoopAlways(ast, optimizeflag) ==
    Finished(SelfLoop(SelfLoop(ASTtoNFA_node(TwoStates, 0, 1, ast.root, {0}, {0}),
                               ast.anchorBegin, 0),
                      FALSE, 1),
             optimizeflag)

ASTtoNFA(ast, optimizeflag) ==
    Finished(SelfLoop(SelfLoop(ASTtoNFA_node(TwoStates, 0, 1, ast.root, {0}, {0}),
                               ast.anchorBegin, 0),
                      ast.anchorEnd, 1),
             optimizeflag)

(***************************************************************************)
(* Matchers on the input                                                   *)
(***************************************************************************)
\* The remaining input is str from offset pos (0-based); it is empty when
\* pos = Len(str).  length is the number of characters a matcher consumes.
length(matcher) == IF isinstance(matcher, "Epsilon") THEN 0 ELSE 1

\* CharacterClassMatcher::_non_inverting_match on the character ch = str[0]
non_inverting_match(cls, ch) ==
    \E k \in 1..Len(cls.intervals) :
        Ord(ch) >= Ord(cls.intervals[k][1]) /\ Ord(ch) <= Ord(cls.intervals[k][2])

\* Matcher::match on the remaining input.  A character class reads str[0]
\* with no test for an empty view: on the empty remaining input it reads
\* the byte behind the view, here oob.
match(matcher, str, pos, oob) ==
    LET isempty == (pos >= Len(str))
        first == IF isempty THEN oob ELSE CharAt(str, pos + 1)
    IN CASE isinstance(matcher, "Epsilon") -> TRUE
         [] isinstance(matcher, "Character") -> ~isempty /\ first = matcher.cmatch
         [] isinstance(matcher, "Universal") -> ~isempty
         [] isinstance(matcher, "CharacterClass") ->
               (matcher.invert # non_inverting_match(matcher, first))

(***************************************************************************)
(* NFA::simulate                                                           *)
(***************************************************************************)
\* A string_view into the input is [null, data, size]: data is the offset
\* of its first character; null marks the null data pointer of the
\* default-constructed view.
EmptyView == [null |-> TRUE, data |-> 0, size |-> 0]

\* A size taken as a pointer difference from the null pointer: an address,
\* no length inside the input.
GarbageSize == 0 - 1

\* ApplyInfo with the end of a group taken before the matcher's characters.
ApplyInfo_NoLength(captures, info, pos, len) ==
    LET opened == [g \in 1..Len(captures) |->
                      IF (g - 1) \in info.begingroups
                      THEN [null |-> FALSE, data |-> pos, size |-> 0] ELSE captures[g]]
    IN [g \in 1..Len(captures) |->
           IF (g - 1) \in info.endgroups
           THEN [null |-> opened[g].null, data |-> opened[g].data,
                 size |-> IF opened[g].null THEN GarbageSize
                          ELSE pos - opened[g].data]
           ELSE opened[g]]

\* captures after the begingroups and endgroups of info have been applied.
ApplyInfo(captures, info, pos, len) ==
    LET opened == [g \in 1..Len(captures) |->
                      IF (g - 1) \in info.begingroups
                      THEN [null |-> FALSE, data |-> pos, size |-> 0] ELSE captures[g]]
    IN [g \in 1..Len(captures) |->
           IF (g - 1) \in info.endgroups
           THEN [null |-> opened[g].null, data |-> opened[g].data,
                 size |-> IF opened[g].null THEN GarbageSize
                          ELSE pos + len - opened[g].data]
           ELSE opened[g]]

\* exploreTransitions and its loop over the transitions of currentState.
\* ctx holds what the lambda captures by reference: visitedStates, captures.
\* ret is "true", "false", or "exception" when substr throws out_of_range.
\* ctx.history is no data of the program: it lists the calls of
\* exploreTransitions in the order in which they return, each with its
\* arguments, whether it went past the visited test (expanded), and
\* visitedStates and captures as it found them (entered) and left them (left).
RECURSIVE exploreTransitions(_, _, _, _, _, _)
RECURSIVE exploreLoop(_, _, _, _, _, _, _)

Returning(r, currentState, pos, expanded, ctx) ==
    [r EXCEPT !.history =
        Append(@, [currentState |-> currentState, pos |-> pos, ret |-> r.ret,
                   expanded |-> expanded,
                   entered |-> [visitedStates |-> ctx.visitedStates,
                                captures |-> ctx.captures],
                   left |-> [visitedStates |-> r.visitedStates,
                             captures |-> r.captures]])]

\* exploreTransitions that takes the pairs of a failed call out of the
\* visited set.
exploreTransitions_ForgetOnFailure(nfa, str, oob, currentState, pos, ctx) ==
    IF pos = Len(str) /\ nfa.states[currentState + 1].finalState
    THEN Returning([ret |-> "true", visitedStates |-> ctx.visitedStates,
                    captures |-> ctx.captures, history |-> ctx.history],
                   currentState, pos, FALSE, ctx)
    ELSE IF <<currentState, pos>> \in ctx.visitedStates
    THEN Returning([ret |-> "false", visitedStates |-> ctx.visitedStates,
                    captures |-> ctx.captures, history |-> ctx.history],
                   currentState, pos, FALSE, ctx)
    ELSE LET r == exploreLoop(nfa, str, oob, currentState, pos, 1,
                      [visitedStates |-> ctx.visitedStates \cup {<<currentState, pos>>},
                       captures |-> ctx.captures, history |-> ctx.history])
         IN Returning(IF r.ret = "false"
                      THEN [r EXCEPT !.visitedStates = ctx.visitedStates] ELSE r,
                      currentState, pos, TRUE, ctx)

exploreTransitions(nfa, str, oob, currentState, pos, ctx) ==
    IF pos = Len(str) /\ nfa.states[currentState + 1].finalState
    THEN Returning([ret |-> "true", visitedStates |-> ctx.visitedStates,
                    captures |-> ctx.captures, history |-> ctx.history],
                   currentState, pos, FALSE, ctx)
    ELSE IF <<currentState, pos>> \in ctx.visitedStates
    THEN Returning([ret |-> "false", visitedStates |-> ctx.visitedStates,
                    captures |-> ctx.captures, history |-> ctx.history],
                   currentState, pos, FALSE, ctx)
    ELSE Returning(exploreLoop(nfa, str, oob, currentState, pos, 1,
                       [visitedStates |-> ctx.visitedStates \cup {<<currentState, pos>>},
                        captures |-> ctx.captures, history |-> ctx.history]),
                   currentState, pos, TRUE, ctx)

\* exploreLoop that keeps the capture vector of a failed transition.
RECURSIVE exploreLoop_NoRestore(_, _, _, _, _, _, _)
exploreLoop_NoRestore(nfa, str, oob, currentState, pos, k, ctx) ==
    IF k > Len(nfa.states[currentState + 1].transitions)
    THEN [ret |-> "false", visitedStates |-> ctx.visitedStates, captures |-> ctx.captures,
          history |-> ctx.history]
    ELSE LET currtransition == nfa.states[currentState + 1].transitions[k]
             matcher == nfa.matchers[currtransition[1]]
             info == currtransition[3]
             updated == IF info.null THEN ctx.captures
                        ELSE ApplyInfo(ctx.captures, info, pos, length(matcher))
         IN IF ~match(matcher, str, pos, oob)
            THEN exploreLoop_NoRestore(nfa, str, oob, currentState, pos, k + 1, ctx)
            ELSE IF pos + length(matcher) > Len(str)
            THEN [ret |-> "exception", visitedStates |-> ctx.visitedStates,
                  captures |-> updated, history |-> ctx.history]
            ELSE LET r == exploreTransitions(nfa, str, oob, currtransition[2],
                              pos + length(matcher),
                              [visitedStates |-> ctx.visitedStates,
                               captures |-> updated, history |-> ctx.history])
                 IN IF r.ret # "false" THEN r
                    ELSE exploreLoop_NoRestore(nfa, str, oob, currentState, pos, k + 1,
                             [visitedStates |-> r.visitedStates,
                              captures |-> r.captures, history |-> r.history])

exploreLoop(nfa, str, oob, currentState, pos, k, ctx) ==
    IF k > Len(nfa.states[currentState + 1].transitions)
    THEN [ret |-> "false", visitedStates |-> ctx.visitedStates, captures |-> ctx.captures,
          history |-> ctx.history]
    ELSE LET currtransition == nfa.states[currentState + 1].transitions[k]
             matcher == nfa.matchers[currtransition[1]]
             nextState == currtransition[2]
             info == currtransition[3]
         IN IF ~match(matcher, str, pos, oob)
            THEN exploreLoop(nfa, str, oob, currentState, pos, k + 1, ctx)
            ELSE LET temp_captures == ctx.captures
                     updated == IF info.null THEN ctx.captures
                                ELSE ApplyInfo(ctx.captures, info, pos, length(matcher))
                 IN IF pos + length(matcher) > Len(str)
                    THEN [ret |-> "exception", visitedStates |-> ctx.visitedStates,
                          captures |-> updated, history |-> ctx.history]
                    ELSE LET r == exploreTransitions(nfa, str, oob, nextState,
                                      pos + length(matcher),
                                      [visitedStates |-> ctx.visitedStates,
                                       captures |-> updated, history |-> ctx.history])
                         IN IF r.ret # "false" THEN r
                            ELSE exploreLoop(nfa, str, oob, currentState, pos, k + 1,
                                     [visitedStates |-> r.visitedStates,
                                      captures |-> IF info.null THEN r.captures
                                                   ELSE temp_captures,
                                      history |-> r.history])

\* for (auto&state : states) if (state.initialState && exploreTransitions(...))
RECURSIVE simulateLoop(_, _, _, _, _)
simulateLoop(nfa, str, oob, s, ctx) ==
    IF s > Len(nfa.states)
    THEN [status |-> "nomatch", captures |-> <<>>, history |-> ctx.history]
    ELSE IF ~nfa.states[s].initialState THEN simulateLoop(nfa, str, oob, s + 1, ctx)
    ELSE LET r == exploreTransitions(nfa, str, oob, s - 1, 0, ctx)
         IN IF r.ret = "true"
            THEN [status |-> "match", captures |-> r.captures, history |-> r.history]
            ELSE IF r.ret = "exception"
            THEN [status |-> "exception", captures |-> <<>>, history |-> r.history]
            ELSE simulateLoop(nfa, str, oob, s + 1,
                     [visitedStates |-> r.visitedStates, captures |-> r.captures,
                      history |-> r.history])

\* simulate with the history of its calls of exploreTransitions.
search(nfa, str, oob) ==
    simulateLoop(nfa, str, oob, 1,
                 [visitedStates |-> {}, captures |-> [g \in 1..nfa.nGroups |-> EmptyView],
                  history |-> <<>>])

\* The result: status "match" with the nGroups captures, "nomatch" with the
\* empty vector, or "exception" (std::out_of_range leaves simulate).
simulate(nfa, str, oob) ==
    LET r == search(nfa, str, oob) IN [status |-> r.status, captures |-> r.captures]

(***************************************************************************)
(* NFA::powerset                                                           *)
(***************************************************************************)
\* A std::set<size_t> in increasing order, as a sequence.
RECURSIVE Ascending(_)
Ascending(S) ==
    IF S = {} THEN <<>>
    ELSE LET least == CHOOSE x \in S : \A y \in S : x <= y
         IN <<least>> \o Ascending(S \ {least})

\* The loop over the transitions of currentState inside epsilonClosure.
RECURSIVE closureTransitions(_, _, _, _, _)
closureTransitions(nfa, currentState, k, inputStates, stateStack) ==
    IF k > Len(nfa.states[currentState + 1].transitions)
    THEN [inputStates |-> inputStates, stateStack |-> stateStack]
    ELSE LET transition == nfa.states[currentState + 1].transitions[k]
             nextState == transition[2]
         IN IF isinstance(nfa.matchers[transition[1]], "Epsilon")
                 /\ nextState \notin inputStates
            THEN closureTransitions(nfa, currentState, k + 1,
                                    inputStates \cup {nextState},
                                    Append(stateStack, nextState))
            ELSE closureTransitions(nfa, currentState, k + 1, inputStates, stateStack)

\* while (!stateStack.empty()): the top of the stack is the last element.
RECURSIVE closureLoop(_, _, _)
closureLoop(nfa, inputStates, stateStack) ==
    IF stateStack = <<>> THEN inputStates
    ELSE LET r == closureTransitions(nfa, Last(stateStack), 1, inputStates,
                                     Front(stateStack))
         IN closureLoop(nfa, r.inputStates, r.stateStack)

epsilonClosure(nfa, inputStates) == closureLoop(nfa, inputStates, Ascending(inputStates))

\* The states reached from currentStates by consuming the character c.
Step(nfa, currentStates, c) ==
    {nfa.states[x[1] + 1].transitions[x[2]][2] :
        x \in {y \in currentStates \X (1..Len(nfa.matchers)) :
                 /\ y[2] <= Len(nfa.states[y[1] + 1].transitions)
                 /\ LET matcher == nfa.matchers[nfa.states[y[1] + 1].transitions[y[2]][1]]
                    IN length(matcher) = 1 /\ match(matcher, c, 0, NUL)}}

\* for (char c : str)
RECURSIVE powersetLoop(_, _, _, _)
powersetLoop(nfa, str, i, currentStates) ==
    IF i > Len(str) THEN currentStates
    ELSE powersetLoop(nfa, str, i + 1,
                      Step(nfa, epsilonClosure(nfa, currentStates), CharAt(str, i)))

powerset(nfa, str) ==
    LET initial == {s - 1 : s \in {x \in 1..Len(nfa.states) : nfa.states[x].initialState}}
        currentStates == epsilonClosure(nfa, powersetLoop(nfa, str, 1, initial))
    IN \E state \in currentStates : nfa.states[state + 1].finalState

(***************************************************************************)
(* Patterns and inputs of the runs                                         *)
(***************************************************************************)
\* The longest input, the largest number written in a counted repetition,
\* and the number of inputs tried on one pair of automata.
MaxInputLen == 4
MaxCount == 2
MaxCalls == 2

InputAlphabet == {"a", "b"}

RECURSIVE StringsUpTo(_)
StringsUpTo(n) ==
    IF n = 0 THEN {""}
    ELSE LET shorter == StringsUpTo(n - 1)
         IN shorter \cup {s \o c : s \in shorter, c \in InputAlphabet}

Inputs == StringsUpTo(MaxInputLen)

\* The byte behind the end of the input view: the terminator of a
\* std::string, or whatever follows the view in a larger buffer.
OobBytes == {NUL} \cup InputAlphabet

Begins == {"", "^"}
Ends == {"", "$"}
Quantifiers == {"", "*", "+", "?", "*?", "+?", "??"}

\* {m}, {m,}, {m,n} and their lazy forms, for 0 <= m < n <= MaxCount.
Counted ==
    LET forms == {"{" \o ToString(m) \o "}" : m \in 0..MaxCount}
                   \cup {"{" \o ToString(m) \o ",}" : m \in 0..MaxCount}
                   \cup {"{" \o ToString(m) \o "," \o ToString(n) \o "}" :
                           m \in 0..MaxCount, n \in 1..MaxCount}
    IN forms \cup {f \o "?" : f \in forms}

\* A quantified group under a second quantifier, before a tail.
NestedPatterns ==
    {b \o "(a" \o q1 \o ")" \o q2 \o t \o e :
        b \in Begins, q1 \in Quantifiers, q2 \in Quantifiers,
        t \in {"", "(ab|ba)"}, e \in Ends}

\* A capturing group under a quantifier.
GroupPatterns ==
    {"<a>" \o q : q \in Quantifiers \cup Counted}
      \cup {"<a>b", "<a><b>", "<<a>b>", "<a|b>", "(<a>|b)*", "<a*>b", "a<b*>$",
             "<a*>*", "(<a>?)*b", "<a*>*?b", "^(<a>|<b>*)*$"}

\* Character classes and the wildcard.
ClassPatterns ==
    {b \o c \o q \o e :
        b \in Begins, c \in {"[^a]", "[ab]", "[b-a]", "."}, q \in {"", "?", "*", "+?"},
        e \in Ends}

\* Alternations R|S at the top level.
AltOperands == {"a", "b", "ab", "a*", "(a|b)", "a(a|b)", "a(b)"}
AltPatterns == {r \o "|" \o s : r \in AltOperands, s \in AltOperands}

\* A backslash before each metacharacter, first, last or inside.
Metacharacters == {".", "|", "*", "+", "?", "(", ")", "<", ">", "[", "]", "{", "}",
                   "\\", "^", "$"}
EscapePatterns ==
    {pre \o "\\" \o m \o post : pre \in {"", "a"}, m \in Metacharacters, post \in {"", "b"}}

\* Anchors alone, empty groups, and patterns that are rejected.
EdgePatterns ==
    {"", "^", "$", "^$", "()", "a()", "a()*", "(a|)", "ab{0}", "a{1}", "(a", "a)", "a{", "[a",
     "a{2,1}", "*", "a**", "a|", "|a", "(a)(b)", "((a))", "a.b", "^a.b$"}

\* The unanchored a{m,n} and a{m,n}?, for 0 <= m <= n and 1 <= n <= MaxRepeat.
MaxRepeat == 4
RepeatOf(m, n, lazy) ==
    "a{" \o ToString(m) \o "," \o ToString(n) \o "}" \o (IF lazy THEN "?" ELSE "")
RepeatPatterns ==
    {RepeatOf(p[1], p[2], lazy) :
        p \in {q \in (0..MaxRepeat) \X (1..MaxRepeat) : q[1] <= q[2]}, lazy \in BOOLEAN}

\* Classes with ^ at their head, inside, escaped, or absent.
ClassBodies == {"^a", "a^", "a^b", "^a^", "\\^a", "a\\^", "ab", "^ab", "^a-b", "a-b^"}

\* A class with an unescaped [ inside, an empty class, or a class closed on a
\* pending range, after a prefix and before a suffix.
ClassErrorPatterns ==
    {pre \o err \o post :
        pre \in {"", "a", "^", "(", "a|", "a*", "a{", "a{1,"},
        err \in {"[[", "[a[b]", "[^[", "[]", "[^]", "[a-]", "[^a-]", "[a-b-]", "[ab-]"},
        post \in {"", "b", "$"}}

\* A character that is no digit, space, first comma or } inside an open {...}.
RepeatErrorPatterns ==
    {"a{" \o inner \o bad \o post :
        inner \in {"", "1", "1,", "1,2", " ", "1 "},
        bad \in {"[", "(", "<", ")", "]", "{", "x", "*", "|", ".", "-", "^", "$",
                 "\\1", "\\}", "\\[", "\\ "},
        post \in {"", "}", "2}", "a]}"}}
      \cup {"a{" \o inner \o "," \o post :
              inner \in {"1,", "1,2", ",", "1, "}, post \in {"", "}", "2}"}}

\* a{m}, a{m,} and a{m,n}: the text of the minimum, a comma or none, the text
\* of the maximum or none, and sp before and after each of them.
CountedForm(m, comma, max, sp) ==
    "a{" \o sp \o ToString(m) \o sp
         \o (IF comma THEN "," \o sp \o max \o (IF max = "" THEN "" ELSE sp) ELSE "") \o "}"
CountedForms ==
    LET counts == (0..MaxCount) \cup {10, 12}
    IN {CountedForm(m, FALSE, "", sp) : m \in counts, sp \in {"", " "}}
         \cup {CountedForm(m, TRUE, max, sp) :
                 m \in counts, max \in {""} \cup {ToString(n) : n \in counts},
                 sp \in {"", " "}}

Regexes == NestedPatterns \cup GroupPatterns \cup ClassPatterns \cup AltPatterns
             \cup EscapePatterns \cup EdgePatterns \cup RepeatPatterns
             \cup {"[" \o body \o "]" : body \in ClassBodies}
             \cup ClassErrorPatterns \cup RepeatErrorPatterns \cup CountedForms

(***************************************************************************)
(* The run of main's test loop on one pattern and one input                *)
(***************************************************************************)
VARIABLES
    regex,              \* the pattern under test
    pc,                 \* "start", "parsed", "printed", "compiled", "done",
                        \* "rejected" (buildAST threw), "aborted" (an assertion)
    ast,                \* buildAST(regex)
    ss,                 \* the printed form of ast
    ast_check,          \* buildAST(ss.str())
    ss_check,           \* the printed form of ast_check
    equal,              \* EqualAST(ast_check, ast)
    ast2,               \* buildAST(regex, false), then optimized in place
    nfa,                \* ASTtoNFA(ast2, false), before ast2.optimize()
    nfa2,               \* ASTtoNFA(ast2), after ast2.optimize()
    input,              \* the input of the run
    oob,                \* the byte behind the input view
    captures,           \* nfa.simulate(input)
    captures2,          \* nfa2.simulate(input)
    result_powerset,    \* nfa.powerset(input)
    result_powerset2,   \* nfa2.powerset(input)
    calls               \* the turns of the loop over the inputs made so far

vars == <<regex, pc, ast, ss, ast_check, ss_check, equal, ast2, nfa, nfa2,
          input, oob, captures, captures2, result_powerset, result_powerset2, calls>>

\* The default-constructed AST (a null root) and the result of no run.
NullAST == [root |-> [type |-> "null"], anchorBegin |-> FALSE, anchorEnd |-> FALSE,
            thrown |-> NoThrow]
NoResult == [status |-> "none", captures |-> <<>>]

InitWith(patterns) ==
    /\ regex \in patterns
    /\ pc = "start"
    /\ ast = NullAST /\ ast_check = NullAST /\ ast2 = NullAST
    /\ ss = "" /\ ss_check = "" /\ equal = FALSE
    /\ nfa = EmptyNFA /\ nfa2 = EmptyNFA
    /\ input = "" /\ oob = NUL
    /\ captures = NoResult /\ captures2 = NoResult
    /\ result_powerset = FALSE /\ result_powerset2 = FALSE
    /\ calls = 0

Init == InitWith(Regexes)

\* auto ast = buildAST(regex);
Read ==
    /\ pc = "start"
    /\ ast' = buildAST(regex, TRUE)
    /\ pc' = IF ast'.thrown = NoThrow THEN "parsed"
             ELSE IF ast'.thrown \in {SyntaxError, UnbalancedBrackets} THEN "rejected"
             ELSE "aborted"
    /\ UNCHANGED <<regex, ss, ast_check, ss_check, equal, ast2, nfa, nfa2, input, oob,
                   captures, captures2, result_powerset, result_powerset2, calls>>

\* ss << ast; auto ast_check = buildAST(ss.str()); ss_check << ast_check;
\* and the value of EqualAST(ast_check, ast).
PrintCheck ==
    /\ pc = "parsed"
    /\ ss' = PrintAST(ast)
    /\ ast_check' = buildAST(ss', TRUE)
    /\ ss_check' = IF ast_check'.thrown = NoThrow THEN PrintAST(ast_check') ELSE ""
    /\ equal' = (ast_check'.thrown = NoThrow /\ EqualAST(ast_check', ast))
    /\ pc' = "printed"
    /\ UNCHANGED <<regex, ast, ast2, nfa, nfa2, input, oob,
                   captures, captures2, result_powerset, result_powerset2, calls>>

\* auto ast2 = buildAST(regex, false); auto nfa = ASTtoNFA(ast2, false);
\* ast2.optimize(); auto nfa2 = ASTtoNFA(ast2);
Compile ==
    /\ pc = "printed"
    /\ LET unoptimized == buildAST(regex, FALSE)
       IN /\ nfa' = ASTtoNFA(unoptimized, FALSE)
          /\ ast2' = [unoptimized EXCEPT !.root = optimizeAST(@)]
    /\ nfa2' = ASTtoNFA(ast2', TRUE)
    /\ pc' = IF nfa'.thrown = NoThrow /\ nfa2'.thrown = NoThrow THEN "compiled"
             ELSE "aborted"
    /\ UNCHANGED <<regex, ast, ss, ast_check, ss_check, equal, input, oob,
                   captures, captures2, result_powerset, result_powerset2, calls>>

\* Simulate that hands the capture vector of the turn before to simulate.
Simulate_StaleCaptures(w, byte) ==
    /\ pc \in {"compiled", "done"}
    /\ calls < MaxCalls
    /\ calls' = calls + 1
    /\ input' = w
    /\ oob' = byte
    /\ captures' =
          LET r == simulateLoop(nfa, w, byte, 1,
                       [visitedStates |-> {}, history |-> <<>>,
                        captures |-> IF captures.status = "match" THEN captures.captures
                                     ELSE [g \in 1..nfa.nGroups |-> EmptyView]])
          IN [status |-> r.status, captures |-> r.captures]
    /\ captures2' =
          LET r == simulateLoop(nfa2, w, byte, 1,
                       [visitedStates |-> {}, history |-> <<>>,
                        captures |-> IF captures2.status = "match" THEN captures2.captures
                                     ELSE [g \in 1..nfa2.nGroups |-> EmptyView]])
          IN [status |-> r.status, captures |-> r.captures]
    /\ result_powerset' = powerset(nfa, w)
    /\ result_powerset2' = powerset(nfa2, w)
    /\ pc' = "done"
    /\ UNCHANGED <<regex, ast, ss, ast_check, ss_check, equal, ast2, nfa, nfa2>>

\* One turn of the loop over the inputs, for (const auto&input:inputs): both
\* executors on both automata.  The loop is followed for MaxCalls turns.
Simulate(w, byte) ==
    /\ pc \in {"compiled", "done"}
    /\ calls < MaxCalls
    /\ calls' = calls + 1
    /\ input' = w
    /\ oob' = byte
    /\ captures' = simulate(nfa, w, byte)
    /\ captures2' = simulate(nfa2, w, byte)
    /\ result_powerset' = powerset(nfa, w)
    /\ result_powerset2' = powerset(nfa2, w)
    /\ pc' = "done"
    /\ UNCHANGED <<regex, ast, ss, ast_check, ss_check, equal, ast2, nfa, nfa2>>

\* The run of each pattern up to its first input.
Next ==
    \/ Read
    \/ PrintCheck
    \/ Compile
    \/ \E w \in Inputs, byte \in OobBytes : pc = "compiled" /\ Simulate(w, byte)

Spec == Init /\ [][Next]_vars

\* The loop over the inputs followed for MaxCalls turns, on patterns with
\* capturing groups and on inputs of at most MaxLoopInputLen characters.
MaxLoopInputLen == 2

LoopInit ==
    InitWith({"<a>", "<a>|b", "<a|b>", "(<a>|b)*", "<a*>b", "a<b*>$", "<a>?<b>", "^<a>*?b"})

LoopNext ==
    \/ Read
    \/ PrintCheck
    \/ Compile
    \/ \E w \in StringsUpTo(MaxLoopInputLen), byte \in OobBytes : Simulate(w, byte)

LoopSpec == LoopInit /\ [][LoopNext]_vars

\* buildAST alone, on every text of at most MaxTextLen characters made of
\* group brackets, a letter, | and the backslash, on every one made of the
\* anchor characters, letters and the backslash, and on every one made of a
\* letter, the non-capturing brackets and the quantifiers.
MaxTextLen == 5

RECURSIVE TextsUpTo(_, _)
TextsUpTo(alphabet, n) ==
    IF n = 0 THEN {""}
    ELSE {s \o c : s \in TextsUpTo(alphabet, n - 1), c \in {""} \cup alphabet}

GroupTexts == TextsUpTo({"(", ")", "<", ">", "a", "|", "\\"}, MaxTextLen)
AnchorTexts == TextsUpTo({"^", "$", "a", "b", "\\"}, MaxTextLen)
QuantifierTexts == TextsUpTo({"a", "(", ")", "*", "+", "?"}, MaxTextLen)

\* The classes [...] of at most MaxClassLen characters made of three letters
\* (two of them adjacent), - and ^.
MaxClassLen == 5
ClassTexts == {"[" \o body \o "]" : body \in TextsUpTo({"a", "b", "d", "-", "^"}, MaxClassLen)}

ParseInit == InitWith(GroupTexts \cup AnchorTexts \cup QuantifierTexts \cup ClassTexts)

ParseSpec == ParseInit /\ [][Read]_vars

\* ASTtoNFA on one AST with and without NFA::optimize: the AST is the one
\* buildAST returns for the pattern, optimized or not; nfa is lowered from it
\* with optimize = false and nfa2 with optimize = true.
Lower(optimizeast) ==
    /\ pc = "parsed"
    /\ ast2' = buildAST(regex, optimizeast)
    /\ nfa' = ASTtoNFA(ast2', FALSE)
    /\ nfa2' = ASTtoNFA(ast2', TRUE)
    /\ pc' = IF nfa'.thrown = NoThrow /\ nfa2'.thrown = NoThrow THEN "compiled"
             ELSE "aborted"
    /\ UNCHANGED <<regex, ast, ss, ast_check, ss_check, equal, input, oob,
                   captures, captures2, result_powerset, result_powerset2, calls>>

LowerNext ==
    \/ Read
    \/ \E optimizeast \in BOOLEAN : Lower(optimizeast)
    \/ \E w \in Inputs, byte \in OobBytes : pc = "compiled" /\ Simulate(w, byte)

LowerSpec == Init /\ [][LowerNext]_vars

(***************************************************************************)
(* The language of an AST, to state what a pattern denotes                 *)
(***************************************************************************)
RECURSIVE InLang(_, _)
RECURSIVE InConcat(_, _, _)
RECURSIVE InRepeat(_, _, _, _, _)

\* u is a concatenation of words of childs[i], childs[i+1], ...
InConcat(childs, i, u) ==
    IF i > Len(childs) THEN u = ""
    ELSE \E k \in 0..Len(u) :
            InLang(childs[i], SubSeq(u, 1, k))
              /\ InConcat(childs, i + 1, SubSeq(u, k + 1, Len(u)))

\* u is a concatenation of n words of child, min <= n, and n <= max unless
\* unbounded.
InRepeat(child, u, min, max, unbounded) ==
    IF min = 0 /\ u = "" THEN TRUE
    ELSE IF ~unbounded /\ max = 0 THEN FALSE
    ELSE LET lessmin == IF min > 0 THEN min - 1 ELSE 0
             lessmax == IF unbounded THEN 0 ELSE max - 1
         IN \/ (min > 0 /\ InLang(child, "")
                  /\ InRepeat(child, u, lessmin, lessmax, unbounded))
            \/ \E k \in 1..Len(u) :
                  InLang(child, SubSeq(u, 1, k))
                    /\ InRepeat(child, SubSeq(u, k + 1, Len(u)), lessmin, lessmax, unbounded)

\* u is in the language of the node
InLang(node, u) ==
    CASE node.type = "Epsilon" -> u = ""
      [] node.type = "Character" -> u = node.cmatch
      [] node.type = "Universal" -> Len(u) = 1
      [] node.type = "CharacterClass" ->
            Len(u) = 1 /\ (node.invert # non_inverting_match(node, u))
      [] node.type = "Bracket" -> InLang(node.child, u)
      [] node.type = "Concatenation" -> InConcat(node.childs, 1, u)
      [] node.type = "Disjunction" ->
            \E i \in 1..Len(node.childs) : InLang(node.childs[i], u)
      [] node.type = "KleeneStar" -> InRepeat(node.child, u, 0, 0, TRUE)
      [] node.type = "OneOrMore" -> InRepeat(node.child, u, 1, 0, TRUE)
      [] node.type = "OneOrNone" -> u = "" \/ InLang(node.child, u)
      [] node.type = "Multiply" ->
            InRepeat(node.child, u, node.min, node.max, node.unbounded)

\* Some substring of w is in the language of the root: one that starts at
\* offset 0 if the AST is anchored at its begin, and ends at |w| if it is
\* anchored at its end.
Denotes(tree, w) ==
    \E i \in 0..Len(w), j \in 0..Len(w) :
        /\ i <= j
        /\ tree.anchorBegin => i = 0
        /\ tree.anchorEnd => j = Len(w)
        /\ InLang(tree.root, SubSeq(w, i + 1, j))

\* The leaves of a tree, from left to right.
RECURSIVE Leaves(_)
RECURSIVE LeavesOf(_, _)
LeavesOf(childs, i) ==
    IF i > Len(childs) THEN <<>> ELSE Leaves(childs[i]) \o LeavesOf(childs, i + 1)
Leaves(node) ==
    IF IsSingle(node) THEN Leaves(node.child)
    ELSE IF IsMulti(node) THEN LeavesOf(node.childs, 1)
    ELSE <<node>>

\* The number of capturing groups of a tree.
RECURSIVE CapturingGroups(_)
RECURSIVE CapturingGroupsOf(_, _)
CapturingGroupsOf(childs, i) ==
    IF i > Len(childs) THEN 0
    ELSE CapturingGroups(childs[i]) + CapturingGroupsOf(childs, i + 1)
CapturingGroups(node) ==
    IF IsSingle(node)
    THEN (IF isinstance(node, "Bracket") /\ node.capture THEN 1 ELSE 0)
           + CapturingGroups(node.child)
    ELSE IF IsMulti(node) THEN CapturingGroupsOf(node.childs, 1)
    ELSE 0

Matched(result) == result.status = "match" /\ Len(result.captures) > 0
Returned(result) == result.status \in {"match", "nomatch"}

(***************************************************************************)
(* The claims                                                              *)
(***************************************************************************)
\* C1: on every compiled NFA (optimized or not) and every input, powerset
\* returns true exactly when simulate returns a non-empty capture vector.
C1_AcceptanceConsistency ==
    pc = "done" =>
        /\ result_powerset <=> Matched(captures)
        /\ result_powerset2 <=> Matched(captures2)

\* C2: the NFA of the unoptimized AST, not optimized, and the optimized NFA
\* of the optimized AST give the same accept/reject answer on every input:
\* powerset on both, and simulate on both whenever both return.
C2_OptimizationPreservesAcceptance ==
    pc = "done" =>
        /\ result_powerset = result_powerset2
        /\ (Returned(captures) /\ Returned(captures2))
              => (Matched(captures) <=> Matched(captures2))

\* A run in which both optimizers changed something and the input matched.
C2_Witness ==
    /\ pc = "done"
    /\ ast2.root # buildAST(regex, FALSE).root
    /\ Len(nfa2.states) < Len(nfa.states)
    /\ result_powerset /\ result_powerset2
    /\ Matched(captures) /\ Matched(captures2)
    /\ input # ""

\* C3: when the input matches, simulate on the fully unoptimized NFA and on
\* the fully optimized NFA return the same slice (offset and length) for
\* group 0, whatever greedy and lazy quantifiers are nested.
C3_OptimizationPreservesGroup0 ==
    (pc = "done" /\ Matched(captures) /\ Matched(captures2)) =>
        captures.captures[1] = captures2.captures[1]

\* C4: the compiled NFA accepts the empty input exactly when accept_epsilon
\* of the AST root is true, with or without anchors (main compares the
\* optimized root with the unoptimized automaton).
C4_EpsilonAgreement ==
    (pc = "done" /\ input = "") =>
        /\ result_powerset = accept_epsilon(ast.root)
        /\ result_powerset2 = accept_epsilon(ast2.root)
        /\ result_powerset = accept_epsilon(buildAST(regex, FALSE).root)
        /\ Returned(captures) => (Matched(captures) = accept_epsilon(ast.root))
        /\ Returned(captures2) => (Matched(captures2) = accept_epsilon(ast2.root))

\* The empty input accepted by an automaton anchored at both ends, whose
\* root is a quantifier; and rejected by one that is not anchored at all.
C4_Witness ==
    /\ pc = "done" /\ input = ""
    /\ ast.anchorBegin /\ ast.anchorEnd
    /\ IsSingle(ast.root)
    /\ accept_epsilon(ast.root) /\ result_powerset /\ result_powerset2

\* C5: the NFA accepts w exactly when a substring of w is in the language
\* of the AST root, starting at offset 0 when anchorBegin is set and ending
\* at |w| when anchorEnd is set; the pattern ^$ accepts only the empty input.
C5_AnchoringSemantics ==
    pc = "done" =>
        /\ result_powerset = Denotes(buildAST(regex, FALSE), input)
        /\ result_powerset2 = Denotes(ast2, input)
        /\ regex = "^$" => (result_powerset <=> input = "")
        /\ regex = "^$" => (result_powerset2 <=> input = "")

\* An input accepted for a proper suffix of it, under an end anchor only.
C5_Witness ==
    /\ pc = "done"
    /\ ast2.anchorEnd /\ ~ast2.anchorBegin
    /\ result_powerset /\ result_powerset2
    /\ ~InLang(ast2.root, input)
    /\ \E i \in 1..Len(input) : InLang(ast2.root, SubSeq(input, i + 1, Len(input)))

\* C6: a pattern R|S whose | is outside every group denotes L(R) \cup L(S),
\* R and S each parsed as a whole, also when R ends with a group that holds
\* an alternation.
C6_AlternationLowestPrecedence ==
    \A r \in AltOperands, s \in AltOperands :
        (pc = "parsed" /\ regex = r \o "|" \o s) =>
            \A w \in Inputs :
                InLang(ast.root, w) <=>
                    (InLang(buildAST(r, TRUE).root, w) \/ InLang(buildAST(s, TRUE).root, w))

\* C7: outside {...}, a metacharacter behind an unescaped backslash is
\* parsed as a Character leaf matching exactly that character, wherever it
\* stands in the pattern: the leaves of the AST spell the text, and no anchor
\* is set.
C7_EscapedMetacharacter ==
    \A pre \in {"", "a"}, m \in Metacharacters, post \in {"", "b"} :
        (pc = "parsed" /\ regex = pre \o "\\" \o m \o post) =>
            LET text == pre \o m \o post IN
            /\ ~ast.anchorBegin /\ ~ast.anchorEnd
            /\ Leaves(ast.root) = [i \in 1..Len(text) |-> CharacterMatcher(CharAt(text, i))]
            /\ InLang(ast.root, text)

\* C8: the printed form s of buildAST(p) parses, prints again as s, and its
\* AST is structurally equal to buildAST(p).
C8_PrintRoundTrip ==
    pc = "printed" =>
        /\ ast_check.thrown = NoThrow
        /\ ss_check = ss
        /\ equal

\* C9: simulate and powerset always end with a match or a no-match answer,
\* and no matcher of length 1 matches on the empty remaining input.
C9_ExecutorsNeverFail ==
    pc = "done" =>
        /\ Returned(captures) /\ Returned(captures2)
        /\ \A k \in 1..Len(nfa.matchers) :
              length(nfa.matchers[k]) = 1 => ~match(nfa.matchers[k], input, Len(input), oob)

\* C10: a pattern with k capturing groups compiles to nGroups = k + 1, and a
\* successful simulate returns k + 1 slices, whatever quantifier is applied
\* around a capturing group.
C10_GroupCount ==
    pc = "done" =>
        LET k == CapturingGroups(buildAST(regex, FALSE).root) IN
        /\ nfa.nGroups = k + 1
        /\ nfa2.nGroups = k + 1
        /\ Matched(captures) => Len(captures.captures) = k + 1
        /\ Matched(captures2) => Len(captures2.captures) = k + 1

\* The text of a slice of the input w.
Slice(w, view) == SubSeq(w, view.data + 1, view.data + view.size)

\* group 0 of a successful result is the substring matched by root: a slice
\* of w in the language of root, at offset 0 under a begin anchor, ending at
\* |w| under an end anchor.
Group0IsTheMatch(result, tree, w) ==
    Matched(result) =>
        LET group0 == result.captures[1] IN
        /\ ~group0.null
        /\ group0.data >= 0 /\ group0.size >= 0
        /\ group0.data + group0.size <= Len(w)
        /\ tree.anchorBegin => group0.data = 0
        /\ tree.anchorEnd => group0.data + group0.size = Len(w)
        /\ InLang(tree.root, Slice(w, group0))

\* C11 (as stated): whenever simulate succeeds on w, the slice of group 0
\* starts at offset 0 and has length |w|.
C11_Group0SpansInput ==
    pc = "done" =>
        /\ Matched(captures) =>
              captures.captures[1] = [null |-> FALSE, data |-> 0, size |-> Len(input)]
        /\ Matched(captures2) =>
              captures2.captures[1] = [null |-> FALSE, data |-> 0, size |-> Len(input)]

\* C11 (amended): whenever simulate succeeds on w, group 0 is the slice of w
\* that the pattern matched: it lies inside w, its text is in the language of
\* the root, it starts at offset 0 when anchorBegin is set and ends at |w|
\* when anchorEnd is set, so it spans w when both anchors are set.
C11_Group0IsTheMatch ==
    pc = "done" =>
        /\ Group0IsTheMatch(captures, buildAST(regex, FALSE), input)
        /\ Group0IsTheMatch(captures2, ast2, input)
        /\ (ast2.anchorBegin /\ ast2.anchorEnd /\ Matched(captures2)) =>
              captures2.captures[1] = [null |-> FALSE, data |-> 0, size |-> Len(input)]

\* A match whose group 0 is a proper inner slice of the input.
C11_Witness ==
    /\ pc = "done" /\ Matched(captures) /\ Matched(captures2)
    /\ captures.captures[1].data > 0
    /\ captures2.captures[1].data + captures2.captures[1].size < Len(input)
    /\ captures2.captures[1].size > 0

\* The input is k letters a.
OnlyAs(w) == \A i \in 1..Len(w) : CharAt(w, i) = "a"
Least(i, j) == IF i < j THEN i ELSE j

\* simulate matched and group 0 is the first len characters of the input.
Group0IsPrefix(result, len) ==
    /\ Matched(result)
    /\ result.captures[1] = [null |-> FALSE, data |-> 0, size |-> len]

\* C12: on an input of k >= m letters a, simulate binds group 0 to the first
\* m characters for the unanchored lazy a{m,n}? and to the first min(k, n)
\* characters for the greedy a{m,n}, on both automata; a{2,4}? on aaaa gives
\* group 0 = aa.
C12_GreedyLazyCounted ==
    \A m \in 0..MaxRepeat, n \in 1..MaxRepeat :
        (pc = "done" /\ m <= n /\ OnlyAs(input) /\ Len(input) >= m) =>
            /\ regex = RepeatOf(m, n, TRUE) =>
                  Group0IsPrefix(captures, m) /\ Group0IsPrefix(captures2, m)
            /\ regex = RepeatOf(m, n, FALSE) =>
                  /\ Group0IsPrefix(captures, Least(Len(input), n))
                  /\ Group0IsPrefix(captures2, Least(Len(input), n))
            /\ (regex = "a{2,4}?" /\ input = "aaaa") =>
                  Slice(input, captures2.captures[1]) = "aa"

\* The lazy and the greedy form of one repetition on an input longer than
\* its maximum: a{1,3}? and a{1,3} on aaaa.
C12_Witness ==
    /\ pc = "done" /\ input = "aaaa" /\ regex \in {"a{1,3}?", "a{1,3}"}
    /\ Matched(captures) /\ Matched(captures2)
    /\ captures2.captures[1].size = (IF regex = "a{1,3}" THEN 3 ELSE 1)

\* The node is a character class that matches the characters outside its
\* intervals.
Inverted(node) == isinstance(node, "CharacterClass") /\ node.invert

\* C13: the class [body] is inverted exactly when the first character of
\* body is an unescaped ^; an unescaped ^ further inside does not invert it.
C13_ClassInversion ==
    \A body \in ClassBodies :
        (pc = "parsed" /\ regex = "[" \o body \o "]") =>
            (Inverted(ast.root) <=> CharAt(body, 1) = "^")

\* C14: buildAST fails with syntax_error, and returns no AST, on every
\* pattern with an unescaped [ inside an open class, a class that is empty
\* when closed, or a class closed while a range is pending.
C14_ClassSyntaxErrors ==
    (pc # "start" /\ regex \in ClassErrorPatterns) =>
        /\ ast.thrown = SyntaxError
        /\ pc = "rejected"

\* C15: while a {...} context is open, a character other than a digit, one
\* comma, a space or the closing } makes buildAST fail with syntax_error,
\* also when it is [, ( or an escaped character; no assertion is reached.
C15_RepetitionSyntaxErrors ==
    (pc # "start" /\ regex \in RepeatErrorPatterns) =>
        /\ ast.thrown = SyntaxError
        /\ pc = "rejected"

\* The repetition a{...} as the parser leaves it, before any optimization.
Repetition(min, max, unbounded) ==
    [MultiplyNode(CharacterMatcher("a"))
        EXCEPT !.min = min, !.max = max, !.unbounded = unbounded]

\* C16: as parsed (before optimizeAST rewrites it), {m} is a Multiply with
\* min = max = m, not unbounded; {m,} has min = m and is unbounded; {m,n}
\* with m <= n has min = m, max = n, not unbounded; {m,n} with n < m is a
\* syntax_error; a space around the numbers changes nothing.
C16_CountedForms ==
    \A m \in (0..MaxCount) \cup {10, 12}, n \in (0..MaxCount) \cup {10, 12},
       sp \in {"", " "} :
        (pc # "start" /\ regex \in CountedForms) =>
            /\ regex = CountedForm(m, FALSE, "", sp) =>
                  /\ ast.thrown = NoThrow
                  /\ buildAST(regex, FALSE).root = Repetition(m, m, FALSE)
            /\ regex = CountedForm(m, TRUE, "", sp) =>
                  /\ ast.thrown = NoThrow
                  /\ buildAST(regex, FALSE).root.type = "Multiply"
                  /\ buildAST(regex, FALSE).root.min = m
                  /\ buildAST(regex, FALSE).root.unbounded
            /\ (regex = CountedForm(m, TRUE, ToString(n), sp) /\ m <= n) =>
                  /\ ast.thrown = NoThrow
                  /\ buildAST(regex, FALSE).root = Repetition(m, n, FALSE)
            /\ (regex = CountedForm(m, TRUE, ToString(n), sp) /\ n < m) =>
                  /\ ast.thrown = SyntaxError
                  /\ buildAST(regex, FALSE).thrown = SyntaxError

\* A one-digit minimum and a two-digit maximum with spaces around them.
C16_Witness ==
    /\ pc = "parsed" /\ regex = "a{ 1 , 12 }"
    /\ buildAST(regex, FALSE).root = Repetition(1, 12, FALSE)
    /\ ast.root.type = "Multiply"

\* The closers of a text paired with its openers by a stack, outside classes
\* and {...}: "ok", or the first fault: "none" (a closer with no open group),
\* "kind" (a closer of the other kind than the innermost open group), "open"
\* (a group open at the end).  open holds the openers not yet closed.
RECURSIVE Nesting(_, _, _)
Nesting(text, i, open) ==
    IF i > Len(text) THEN (IF open = "" THEN "ok" ELSE "open")
    ELSE IF CharAt(text, i) = "\\" THEN Nesting(text, i + 2, open)
    ELSE IF CharAt(text, i) \in {"(", "<"}
    THEN Nesting(text, i + 1, open \o CharAt(text, i))
    ELSE IF CharAt(text, i) \in {")", ">"}
    THEN IF open = "" THEN "none"
         ELSE IF CharAt(open, Len(open)) = (IF CharAt(text, i) = ")" THEN "(" ELSE "<")
         THEN Nesting(text, i + 1, SubSeq(open, 1, Len(open) - 1))
         ELSE "kind"
    ELSE Nesting(text, i + 1, open)

\* The number of capturing groups around each Character leaf, left to right.
RECURSIVE LeafDepths(_, _)
RECURSIVE LeafDepthsOf(_, _, _)
LeafDepthsOf(childs, i, d) ==
    IF i > Len(childs) THEN <<>>
    ELSE LeafDepths(childs[i], d) \o LeafDepthsOf(childs, i + 1, d)
LeafDepths(node, d) ==
    IF IsSingle(node)
    THEN LeafDepths(node.child,
                    IF isinstance(node, "Bracket") /\ node.capture THEN d + 1 ELSE d)
    ELSE IF IsMulti(node) THEN LeafDepthsOf(node.childs, 1, d)
    ELSE IF isinstance(node, "Character") THEN <<d>>
    ELSE <<>>

\* The number of < open at each literal character of a well-nested text,
\* each closer taking away the innermost open group.
RECURSIVE TextDepths(_, _, _)
TextDepths(text, i, open) ==
    IF i > Len(text) THEN <<>>
    ELSE IF CharAt(text, i) = "\\" /\ i = Len(text) THEN <<>>
    ELSE IF CharAt(text, i) = "\\" \/ CharAt(text, i) = "a"
    THEN <<Cardinality({k \in 1..Len(open) : CharAt(open, k) = "<"})>>
           \o TextDepths(text, IF CharAt(text, i) = "\\" THEN i + 2 ELSE i + 1, open)
    ELSE IF CharAt(text, i) \in {"(", "<"}
    THEN TextDepths(text, i + 1, open \o CharAt(text, i))
    ELSE IF CharAt(text, i) \in {")", ">"}
    THEN TextDepths(text, i + 1, SubSeq(open, 1, Len(open) - 1))
    ELSE TextDepths(text, i + 1, open)

\* C17: on a text of brackets, letters, | and escapes, buildAST fails with
\* unbalanced_brackets when an unescaped ) or > has no open group, when it is
\* of the other kind than the innermost open group, and when a group is open
\* at the end; otherwise it does not fail, and every closer has closed the
\* innermost open group: each literal lies in the capturing groups that are
\* open around it in the text.
C17_GroupBalancing ==
    (pc # "start" /\ regex \in GroupTexts) =>
        /\ Nesting(regex, 1, "") # "ok" => ast.thrown = UnbalancedBrackets
        /\ Nesting(regex, 1, "") = "ok" =>
              /\ ast.thrown = NoThrow
              /\ LeafDepths(buildAST(regex, FALSE).root, 0) = TextDepths(regex, 1, "")
              /\ LeafDepths(ast.root, 0) = TextDepths(regex, 1, "")

\* A capturing group closed inside a non-capturing one.
C17_Witness ==
    /\ pc = "parsed" /\ regex = "(<a>)"
    /\ Nesting(regex, 1, "") = "ok"
    /\ LeafDepths(ast.root, 0) = <<1>>

\* The text between the anchor characters of a pattern.
BetweenAnchors(text) ==
    SubSeq(text, IF Len(text) > 0 /\ CharAt(text, 1) = "^" THEN 2 ELSE 1,
                 IF Len(text) > 0 /\ CharAt(text, Len(text)) = "$"
                 THEN Len(text) - 1 ELSE Len(text))

\* The characters of a text of anchor characters, letters and backslashes,
\* each as a Character leaf; a backslash stands for the character behind it.
RECURSIVE Literals(_, _)
Literals(text, i) ==
    IF i > Len(text) THEN <<>>
    ELSE IF CharAt(text, i) = "\\"
    THEN (IF i = Len(text) THEN <<>>
          ELSE <<CharacterMatcher(CharAt(text, i + 1))>> \o Literals(text, i + 2))
    ELSE <<CharacterMatcher(CharAt(text, i))>> \o Literals(text, i + 1)

\* C18: anchorBegin is set exactly when the first character of the pattern
\* is ^, anchorEnd exactly when the last one is $; the anchor characters are
\* not parsed, and a ^ or $ at any other position is a Character leaf.
C18_AnchorRecognition ==
    (pc # "start" /\ regex \in AnchorTexts) =>
        /\ ast.thrown = NoThrow
        /\ ast.anchorBegin <=> (Len(regex) > 0 /\ CharAt(regex, 1) = "^")
        /\ ast.anchorEnd <=> (Len(regex) > 0 /\ CharAt(regex, Len(regex)) = "$")
        /\ Leaves(ast.root) =
              (IF Literals(BetweenAnchors(regex), 1) = <<>> THEN <<EpsilonMatcher>>
               ELSE Literals(BetweenAnchors(regex), 1))
        /\ Leaves(buildAST(regex, FALSE).root) = Leaves(ast.root)

\* Both anchors around a text that holds both anchor characters as literals.
C18_Witness ==
    /\ pc = "parsed" /\ regex = "^$a^$"
    /\ ast.anchorBegin /\ ast.anchorEnd
    /\ Leaves(ast.root) = <<CharacterMatcher("$"), CharacterMatcher("a"), CharacterMatcher("^")>>

\* The forward and the reverse transitions of an automaton mirror each
\* other: a forward transition <<matcher, t, info>> of state i has its
\* reverse <<matcher, i, info>> in state t (rtransitions is a set: it is there
\* once), a reverse transition <<matcher, i, info>> of state t is exactly one
\* forward transition of state i, and every index is a state.
Mirror(automaton) ==
    \A s \in 1..Len(automaton.states) :
        /\ \A k \in 1..Len(automaton.states[s].transitions) :
              LET forward == automaton.states[s].transitions[k] IN
              /\ forward[2] >= 0 /\ forward[2] < Len(automaton.states)
              /\ <<forward[1], s - 1, forward[3]>>
                    \in automaton.states[forward[2] + 1].rtransitions
              /\ Cardinality({j \in 1..Len(automaton.states[s].transitions) :
                                automaton.states[s].transitions[j] = forward}) = 1
        /\ \A reverse \in automaton.states[s].rtransitions :
              /\ reverse[2] >= 0 /\ reverse[2] < Len(automaton.states)
              /\ Cardinality({j \in 1..Len(automaton.states[reverse[2] + 1].transitions) :
                                automaton.states[reverse[2] + 1].transitions[j]
                                  = <<reverse[1], s - 1, reverse[3]>>}) = 1

\* C19: no check() at the end of an addTransition of the lowering, and none
\* after NFA::optimize, fails (the run is aborted by the parser or not at
\* all), and the automata built mirror their transitions: the one lowered
\* without optimize and the one that NFA::optimize has finished.
C19_MirrorInvariant ==
    /\ pc = "aborted" => ast.thrown = AssertionFailed
    /\ pc \in {"compiled", "done"} =>
          /\ nfa.thrown = NoThrow /\ nfa2.thrown = NoThrow
          /\ Mirror(nfa) /\ Mirror(nfa2)

\* An automaton that optimize has made smaller, with a state that is reached
\* by two transitions and a state that has two transitions.
C19_Witness ==
    /\ pc = "compiled"
    /\ Len(nfa2.states) < Len(nfa.states)
    /\ \E s \in 1..Len(nfa2.states) : Cardinality(nfa2.states[s].rtransitions) > 1
    /\ \E s \in 1..Len(nfa2.states) : Len(nfa2.states[s].transitions) > 1

\* What a first call of simulate gives: no state visited, no group set.
FirstCall(automaton, w, byte) ==
    LET r == simulateLoop(automaton, w, byte, 1,
                 [visitedStates |-> {}, history |-> <<>>,
                  captures |-> [g \in 1..automaton.nGroups |-> EmptyView]])
    IN [status |-> r.status, captures |-> r.captures]

InitialStates(automaton) ==
    {s \in 1..Len(automaton.states) : automaton.states[s].initialState}
FinalStates(automaton) ==
    {s \in 1..Len(automaton.states) : automaton.states[s].finalState}

\* C21: the NFA after NFA::optimize has exactly one initial state and exactly
\* one final state, as the NFA before it has, for the AST of every pattern,
\* optimized or not; no deletion of one of them is attempted (the program is
\* ended by an assertion of the parser only).
C21_DistinguishedStates ==
    /\ pc = "aborted" => ast.thrown = AssertionFailed
    /\ pc \in {"compiled", "done"} =>
          /\ Cardinality(InitialStates(nfa)) = 1 /\ Cardinality(FinalStates(nfa)) = 1
          /\ Cardinality(InitialStates(nfa2)) = 1 /\ Cardinality(FinalStates(nfa2)) = 1

\* An optimization that has removed states on both sides of a loop, and left
\* the initial and the final state apart.
C21_Witness ==
    /\ pc = "compiled"
    /\ regex = "^(a*)*$"
    /\ Len(nfa2.states) < Len(nfa.states)
    /\ InitialStates(nfa2) = {1}
    /\ FinalStates(nfa2) # {1} /\ Cardinality(FinalStates(nfa2)) = 1

(***************************************************************************)
(* Reachability in an automaton                                            *)
(***************************************************************************)
\* The states (numbered from 0) that have a forward transition into S.
Predecessors(automaton, S) ==
    {s \in 0..(Len(automaton.states) - 1) :
        \E k \in 1..Len(automaton.states[s + 1].transitions) :
            automaton.states[s + 1].transitions[k][2] \in S}

RECURSIVE ReachableFrom(_, _)
ReachableFrom(automaton, S) ==
    LET more == S \cup UNION {{automaton.states[s + 1].transitions[k][2] :
                                   k \in 1..Len(automaton.states[s + 1].transitions)} :
                                 s \in S}
    IN IF more = S THEN S ELSE ReachableFrom(automaton, more)

RECURSIVE Reaching(_, _)
Reaching(automaton, S) ==
    LET more == S \cup Predecessors(automaton, S)
    IN IF more = S THEN S ELSE Reaching(automaton, more)

AllStates(automaton) == 0..(Len(automaton.states) - 1)

\* Every state is reachable from the initial state and reaches the final one.
Trim(automaton) ==
    /\ ReachableFrom(automaton, {s - 1 : s \in InitialStates(automaton)}) = AllStates(automaton)
    /\ Reaching(automaton, {s - 1 : s \in FinalStates(automaton)}) = AllStates(automaton)

\* C22: after NFA::optimize every state is reachable from the initial state
\* along forward transitions and every state reaches the final state, and no
\* assertion of remove_node fails (the program is ended by an assertion of
\* the parser only).
C22_TrimAfterOptimize ==
    /\ pc = "aborted" => ast.thrown = AssertionFailed
    /\ pc \in {"compiled", "done"} => Trim(nfa2)

\* An optimization that has deleted or merged states and left more than the
\* initial and the final state.
C22_Witness ==
    /\ pc = "compiled"
    /\ Len(nfa2.states) < Len(nfa.states)
    /\ Len(nfa2.states) > 2
    /\ Trim(nfa2)

\* C23: on every input, simulate on ASTtoNFA(ast, optimize = true) and on
\* ASTtoNFA(ast, optimize = false) give the same answer and, on a match, the
\* same slice for every group.
C23_OptimizePreservesCaptures ==
    pc = "done" => captures2 = captures

\* A match with a capturing group filled, on an automaton that optimize has
\* made smaller.
C23_Witness ==
    /\ pc = "done"
    /\ Len(nfa2.states) < Len(nfa.states)
    /\ Matched(captures2)
    /\ Len(captures2.captures) > 1
    /\ captures2.captures[2].size > 0
    /\ captures2 = captures

(***************************************************************************)
(* The calls of exploreTransitions during one simulate                     *)
(***************************************************************************)
\* The calls made by nfa2.simulate(input) and by nfa.simulate(input), in the
\* order in which they return.
History2 == search(nfa2, input, oob).history
History1 == search(nfa, input, oob).history

\* Call k finds its (state, offset) pair in the visited set although the call
\* that recorded it has returned.
Refused(history, k) ==
    /\ ~history[k].expanded /\ history[k].ret = "false"
    /\ \E j \in 1..(k - 1) :
          /\ history[j].expanded
          /\ history[j].currentState = history[k].currentState
          /\ history[j].pos = history[k].pos

\* C24: when a call of exploreTransitions returns failure, the (state,
\* offset) pairs it has recorded are no longer in the visited set (the set
\* is as the call found it), so no later call is refused at a pair that a
\* failed branch has recorded.
C24_VisitedSetIsLocal ==
    pc = "done" =>
        /\ \A k \in 1..Len(History2) :
              History2[k].ret = "false" =>
                  History2[k].left.visitedStates = History2[k].entered.visitedStates
        /\ \A k \in 1..Len(History2) : ~Refused(History2, k)

\* The calls of a history that returned true, from the first call of the
\* search to the one that found the final state at the end of the input:
\* the accepting path.
RECURSIVE AcceptingPath(_, _)
AcceptingPath(history, k) ==
    IF k = 0 THEN <<>>
    ELSE IF history[k].ret = "true" THEN <<history[k]>> \o AcceptingPath(history, k - 1)
    ELSE AcceptingPath(history, k - 1)

\* The capture vector that inner was entered with is the one outer was
\* entered with, changed by one transition from outer's state to inner's.
WrittenByTransition(automaton, outer, inner) ==
    \E k \in 1..Len(automaton.states[outer.currentState + 1].transitions) :
        LET currtransition == automaton.states[outer.currentState + 1].transitions[k]
            matcher == automaton.matchers[currtransition[1]]
        IN /\ currtransition[2] = inner.currentState
           /\ inner.pos = outer.pos + length(matcher)
           /\ inner.entered.captures =
                 IF currtransition[3].null THEN outer.entered.captures
                 ELSE ApplyInfo(outer.entered.captures, currtransition[3], outer.pos,
                                length(matcher))

\* Every failed call has left the capture vector as it found it, and the
\* vector of a match is the unset vector changed by the transitions of the
\* accepting path, one after the other.
CapturesRestored(automaton, result, history) ==
    /\ \A k \in 1..Len(history) :
          history[k].ret = "false" => history[k].left.captures = history[k].entered.captures
    /\ Matched(result) =>
          LET path == AcceptingPath(history, Len(history))
          IN /\ path # <<>>
             /\ path[1].entered.captures = [g \in 1..automaton.nGroups |-> EmptyView]
             /\ \A i \in 1..(Len(path) - 1) : WrittenByTransition(automaton, path[i], path[i + 1])
             /\ result.captures = path[Len(path)].entered.captures

\* C25: whenever a call of exploreTransitions returns failure, the capture
\* vector equals its value when the call was entered; on a match every
\* group's slice was written only by transitions on the accepting path.
C25_CaptureRestoration ==
    pc = "done" =>
        /\ CapturesRestored(nfa, captures, History1)
        /\ CapturesRestored(nfa2, captures2, History2)

\* A match found after a branch that had written a group had failed.
C25_Witness ==
    /\ pc = "done"
    /\ Matched(captures2)
    /\ \E k \in 1..Len(History2) :
          /\ History2[k].ret = "false"
          /\ History2[k].entered.captures # [g \in 1..nfa2.nGroups |-> EmptyView]
          /\ \E g \in 2..nfa2.nGroups :
                /\ ~History2[k].entered.captures[g].null
                /\ captures2.captures[g] # History2[k].entered.captures[g]

\* The calls of a history that went past the visited test.
Expansions(history) == {k \in 1..Len(history) : history[k].expanded}

\* simulate has returned, no (state, offset) pair was expanded twice, and the
\* pairs expanded are pairs of a state of the automaton and an offset of w.
ExpandedOnce(automaton, w, result, history) ==
    /\ result.status \in {"match", "nomatch", "exception"}
    /\ \A j \in Expansions(history), k \in Expansions(history) :
          (history[j].currentState = history[k].currentState
             /\ history[j].pos = history[k].pos) => j = k
    /\ \A k \in Expansions(history) :
          history[k].currentState < Len(automaton.states) /\ history[k].pos <= Len(w)
    /\ Cardinality(Expansions(history)) <= Len(automaton.states) * (Len(w) + 1)

\* C26: simulate terminates on every lowered NFA, with epsilon cycles or
\* not, and every input; each (state, offset) pair is expanded at most once
\* per call of simulate, so there are at most |states| * (|input| + 1)
\* expansions.
C26_BacktrackerTerminates ==
    pc = "done" =>
        /\ ExpandedOnce(nfa, input, captures, History1)
        /\ ExpandedOnce(nfa2, input, captures2, History2)

\* An epsilon cycle of a star whose child accepts the empty string, cut by
\* the visited set: a call that finds its pair in the set while the call that
\* recorded it has not returned yet.
C26_Witness ==
    /\ pc = "done"
    /\ regex = "(a*)*"
    /\ isinstance(buildAST(regex, FALSE).root, "KleeneStar")
    /\ accept_epsilon(buildAST(regex, FALSE).root.child)
    /\ \E k \in 1..Len(History1) :
          /\ ~History1[k].expanded /\ History1[k].ret = "false"
          /\ \E j \in (k + 1)..Len(History1) :
                /\ History1[j].expanded
                /\ History1[j].currentState = History1[k].currentState
                /\ History1[j].pos = History1[k].pos

\* C27: for the AST t that the parser produces for a pattern, optimizeAST
\* changes nothing in optimizeAST(t), which is the root that buildAST returns
\* when asked to optimize: one pass reaches the fixed point.
C27_OptimizerIdempotent ==
    pc = "parsed" =>
        LET once == optimizeAST(buildAST(regex, FALSE).root)
        IN /\ optimizeAST(once) = once
           /\ ast.root = once

\* Three quantifiers on one letter, collapsed into one by the optimizer.
C27_Witness ==
    /\ pc = "parsed"
    /\ regex = "a?+*"
    /\ buildAST(regex, FALSE).root = KleeneStarNode(OneOrMoreNode(OneOrNoneNode(CharacterMatcher("a"))))
    /\ ast.root = KleeneStarNode(CharacterMatcher("a"))

\* The parser's AST of the pattern is a OneOrNone around a KleeneStar.
OptAroundStar(t) == isinstance(t, "OneOrNone") /\ isinstance(t.child, "KleeneStar")

\* C28 (as claimed): a OneOrNone around a KleeneStar is rewritten to the
\* KleeneStar of the inner node's child, with the greedy flag of the outer
\* OneOrNone.
C28_OptStarTakesOuterGreedy ==
    pc = "parsed" =>
        LET t == buildAST(regex, FALSE).root
        IN OptAroundStar(t) =>
              /\ isinstance(ast.root, "KleeneStar")
              /\ ast.root.child = optimizeAST(t.child).child
              /\ ast.root.greedy = t.greedy

\* C28 (amended): a OneOrNone around a KleeneStar is rewritten to the
\* KleeneStar of the inner node's child, greedy only when both the outer
\* OneOrNone and the inner KleeneStar are.
C28_OptStarGreedyWhenBoth ==
    pc = "parsed" =>
        LET t == buildAST(regex, FALSE).root
        IN OptAroundStar(t) =>
              /\ isinstance(ast.root, "KleeneStar")
              /\ ast.root.child = optimizeAST(t.child).child
              /\ ast.root.greedy = (t.greedy /\ optimizeAST(t.child).greedy)

\* A greedy OneOrNone around a lazy KleeneStar, rewritten to a lazy star.
C28_Witness ==
    /\ pc = "parsed"
    /\ regex = "(a*?)?"
    /\ LET t == buildAST(regex, FALSE).root
       IN OptAroundStar(t) /\ t.greedy /\ ~t.child.greedy
    /\ ast.root = [KleeneStarNode(CharacterMatcher("a")) EXCEPT !.greedy = FALSE]

\* Intervals with lo <= hi, each starting more than one character after the
\* end of the one before it (so sorted by lo, disjoint and not mergeable).
NormalForm(intervals) ==
    /\ \A i \in 1..Len(intervals) : Ord(intervals[i][1]) <= Ord(intervals[i][2])
    /\ \A i \in 1..(Len(intervals) - 1) :
          Ord(intervals[i + 1][1]) > Ord(intervals[i][2]) + 1

\* The CharacterClass leaves of a tree are in normal form, normalize leaves
\* them as they are, and none is a non-inverted class of one character.
ClassesNormal(root) ==
    \A i \in 1..Len(Leaves(root)) :
        LET leaf == Leaves(root)[i]
        IN isinstance(leaf, "CharacterClass") =>
              /\ leaf.intervals # <<>>
              /\ NormalForm(leaf.intervals)
              /\ normalize(leaf) = leaf
              /\ ~(~leaf.invert /\ Len(leaf.intervals) = 1
                     /\ leaf.intervals[1][1] = leaf.intervals[1][2])

\* C29: every CharacterClass leaf of an AST returned by buildAST, optimized
\* or not, has intervals with lo <= hi, sorted, disjoint and with
\* nextLo > prevHi + 1; normalize leaves them unchanged; a non-inverted class
\* of exactly one character is a Character leaf instead.
C29_ClassNormalForm ==
    pc = "parsed" =>
        /\ ClassesNormal(ast.root)
        /\ ClassesNormal(buildAST(regex, FALSE).root)
        /\ \A c \in {"a", "b", "d"} :
              regex \in {"[" \o c \o "]", "[" \o c \o "-" \o c \o "]", "[" \o c \o c \o "]"}
                 => ast.root = CharacterMatcher(c)

\* A reversed range and letters given out of order, merged into one interval
\* and one letter apart from it.
C29_Witness ==
    /\ pc = "parsed"
    /\ regex = "[db-ab]"
    /\ ast.root = [CharacterClassMatcher EXCEPT !.intervals = <<<<"a", "b">>, <<"d", "d">>>>]

(***************************************************************************)
(* The groups opened on every path to a state                              *)
(***************************************************************************)
GroupsOpenedBy(info) == IF info.null THEN {} ELSE info.begingroups
GroupsClosedBy(info) == IF info.null THEN {} ELSE info.endgroups

\* One round of the analysis: a group is open at a state other than the
\* initial one when every transition into the state either comes from a
\* state where it is open or opens it.
OpenRound(automaton, open) ==
    [s \in DOMAIN open |->
        IF automaton.states[s + 1].initialState THEN {}
        ELSE {g \in 0..(automaton.nGroups - 1) :
                \A p \in DOMAIN open :
                   \A k \in 1..Len(automaton.states[p + 1].transitions) :
                      automaton.states[p + 1].transitions[k][2] = s =>
                         g \in open[p] \cup GroupsOpenedBy(automaton.states[p + 1].transitions[k][3])}]

RECURSIVE OpenFixpoint(_, _)
OpenFixpoint(automaton, open) ==
    LET next == OpenRound(automaton, open)
    IN IF next = open THEN open ELSE OpenFixpoint(automaton, next)

\* For each state, the groups that every path from the initial state to it
\* has opened.
OpenOnEveryPath(automaton) ==
    OpenFixpoint(automaton, [s \in AllStates(automaton) |->
                                IF automaton.states[s + 1].initialState THEN {}
                                ELSE 0..(automaton.nGroups - 1)])

\* Every transition closes only groups that it opens itself or that every
\* path to its source state has opened.
OpenBeforeClose(automaton) ==
    LET open == OpenOnEveryPath(automaton)
    IN \A p \in AllStates(automaton) :
          \A k \in 1..Len(automaton.states[p + 1].transitions) :
             LET info == automaton.states[p + 1].transitions[k][3]
             IN GroupsClosedBy(info) \subseteq (open[p] \cup GroupsOpenedBy(info))

\* No capture vector of the search holds the end of a group without a start.
NoEndWithoutStart(history) ==
    \A k \in 1..Len(history) :
       \A g \in 1..Len(history[k].entered.captures) :
          /\ history[k].entered.captures[g].size # GarbageSize
          /\ history[k].entered.captures[g].null => history[k].entered.captures[g].size = 0

\* C30: in the NFA lowered from an AST, optimized or not, a transition that
\* closes a group is preceded on every path from the initial state by, or is
\* itself, a transition that opens the group; simulate never computes the end
\* of a group whose start it has not recorded.
C30_OpenBeforeClose ==
    /\ pc \in {"compiled", "done"} => OpenBeforeClose(nfa) /\ OpenBeforeClose(nfa2)
    /\ pc = "done" =>
          /\ NoEndWithoutStart(History1) /\ NoEndWithoutStart(History2)
          /\ Matched(captures) =>
                \A g \in 1..Len(captures.captures) : captures.captures[g].size >= 0
          /\ Matched(captures2) =>
                \A g \in 1..Len(captures2.captures) : captures2.captures[g].size >= 0

\* A group inside a loop, opened by one transition and closed by a later one,
\* filled by a match.
C30_Witness ==
    /\ pc = "done"
    /\ regex = "<a*>b"
    /\ \E p \in AllStates(nfa2) : \E k \in 1..Len(nfa2.states[p + 1].transitions) :
          LET info == nfa2.states[p + 1].transitions[k][3]
          IN 1 \in GroupsClosedBy(info) /\ 1 \notin GroupsOpenedBy(info)
               /\ 1 \in OpenOnEveryPath(nfa2)[p]
    /\ Matched(captures2) /\ captures2.captures[2].size > 0

====
